---- MODULE Spec2Model ----
(***************************************************************************)
(* A model of the flight-control core of the quadcopter firmware: the      *)
(* arming state machine (safety.rs), the interrupt handlers that drive it  *)
(* and the motor output (main.rs), the DSHOT frame encoder (dshot.rs), the *)
(* control mixers (flying_wing.rs, firmware/flight_ctrls.rs), the PID      *)
(* primitive (pid.rs) and the autopilot layer (autopilot.rs, pid.rs).      *)
(*                                                                         *)
(* Units.  Floating-point quantities are carried as scaled integers:       *)
(*   throttle and motor power   thousandths       (1.0   = 1000)           *)
(*   PID terms and set-points   tenths            (0.4   = 4)              *)
(*   altitudes                  metres                                     *)
(*   stick deflections          whole deflections (-1, 0, 1)               *)
(***************************************************************************)
EXTENDS Integers, Naturals, Sequences, FiniteSets, TLC

VARIABLES
    fixed_wing,                 \* build feature: "fixed-wing" (TRUE) or "quad" (FALSE)
    control_channel_data,       \* shared: last decoded radio channel data
    arm_status,                 \* state_volatile.arm_status
    has_taken_off,              \* state_volatile.has_taken_off
    arm_signals_received,       \* update_isr local, u8
    disarm_signals_received,    \* update_isr local, u8
    RECEIVED_INITIAL_DISARM,    \* safety.rs static AtomicBool
    ARM_COMMANDED_WITHOUT_IDLE, \* safety.rs static AtomicBool
    update_pending,             \* TIM15 update interrupt pended in the NVIC
    imu_pc,                     \* position of imu_tc_isr
    imu_isr_loop_i,             \* imu_tc_isr local counter (kept modulo 2)
    PAYLOAD,                    \* dshot.rs PAYLOAD: the 16-bit frame of each motor
    frames_sent,                \* number of send_payload bursts started (modulo FrameWrap)
    ESC_TELEM,                  \* dshot.rs static: telemetry bit of outgoing frames
    arm_run,                    \* history: consecutive arm signals handled
    disarm_run,                 \* history: consecutive non-arm signals handled
    call_throttle,              \* history: throttle passed to the last handle_arm_status call
    seen_disarm,                \* history: a disarm signal was handled since boot
    seen_disarm_idle,           \* history: a disarm signal with idle throttle was handled
    nonidle_arm_latched,        \* history: Nth arm signal came with throttle not idle, no disarm since
    current_pwr,                \* firmware: the RotorPower the mixer accumulates into
    rotor_duty,                 \* firmware: power handed to set_power for rotors R1..R4
    control_posits,             \* flying wing: ControlPositions
    elevon_posit,               \* flying wing: positions handed to set_elevon_posit (S1, S2)
    last_output,                \* which output routine started the last burst
    coeffs,                     \* PID gains k_p, k_i in use
    pid_state,                  \* a PidState driven by src/pid.rs calc_pid_error
    fw_pid_state,               \* a PidState driven by firmware/pid.rs calc_pid_error
    pid_rate,                   \* PidGroup of the rate loop
    autopilot_status,           \* AutopilotStatus
    input_mode,                 \* InputMode
    optional_sensors,           \* OptionalSensorStatus
    params,                     \* Params: the aircraft state the autopilot reads
    inputs,                     \* firmware: stick inputs (CtrlInputs)
    attitudes_commanded,        \* src: commanded attitudes (Option fields)
    rates_commanded,            \* src: commanded rates (Option fields)
    pid_attitude,               \* src: PidGroup of the attitude loop
    velocities_commanded,       \* src run_velocity: commanded velocities
    fw_attitudes_commanded,     \* firmware run_attitude: commanded attitudes
    ap_last,                    \* which autopilot routine ran last
    ap_seq,                     \* number of autopilot routine runs (modulo FrameWrap)
    link_lost,                  \* shared: link_lost
    lost_link_timer,            \* shared: TIM17, one-pulse; whether it counts, and its count
    lost_link_pending,          \* TIM17 update interrupt pended in the NVIC
    system_status,              \* shared: SystemStatus, the fields the handlers touch
    link_stats,                 \* shared: last decoded link statistics
    since_ch_data,              \* history: ticks since a channel-data packet was decoded
    since_packet,               \* history: ticks since any packet was decoded
    pilot_ap,                   \* history: AutopilotStatus when lost_link_isr last started
    link_event,                 \* history: "lost" after lost_link_isr, "reacquired" after the packet that ends it
    PAYLOAD_REC_BB,             \* dshot.rs PAYLOAD_REC_BB_1..4: the received line levels of each motor
    rotor_rpms,                 \* shared: MotorRpm
    esc_rpm_fault,              \* the fault flag handed to update_rpms
    rec_packet,                 \* the 16-bit packet last handed to rpm_from_data
    rec_result,                 \* what rpm_from_data returned for it
    firmware_build,             \* which encoder is built: firmware/ (TRUE) or src/ (FALSE)
    enc_cmd,                    \* the CmdType last handed to setup_payload
    enc_telem,                  \* the telemetry bit setup_payload put into that frame
    enc_duties,                 \* the 16 PAYLOAD entries of one motor that setup_payload wrote
    wire_frame,                 \* the 16-bit frame as it arrives at the ESC
    wire_flip,                  \* which bit of it was flipped on the wire (-1: none)
    bus_pc,                     \* position of the task that sends a burst: "idle" or "encoded"
    CH_B_REC_MODE,              \* dshot.rs static AtomicBool read by dshot_isr_r34
    pin_mode,                   \* GPIO MODER of the motor pins: "alt" (timer output) or "input"
    timer_dir,                  \* last of set_to_output / set_to_input applied to the motor timer
    timer_en,                   \* TIM3 CR1.CEN: the motor timer counts
    dma_xfer,                   \* transfer on the motor DMA channel: "none", "write" or "read"
    dma_count,                  \* items of it already moved
    dma_tc,                     \* transfer-complete interrupt pended, and which transfer raised it
    isr_branch,                 \* history: what the last dshot_isr_r34 run did
    setup_pc,                   \* position of init in setup_motor_dir; "done" once init has returned
    setup_i,                    \* loop counter of setup_motor_dir
    motors_reversed,            \* user_cfg: whether each motor is reversed
    frame_delayed,              \* history: a delay has run since the last burst was started
    cmd_sent,                   \* history: command bursts started, per command kind
    time_with_high_throttle,    \* update_isr local: time the high-throttle condition has been accumulating, in ticks
    time_with_low_throttle,     \* time the idle-and-level condition has been accumulating, in ticks
    lock_in,                    \* history: the inputs of the last handle_takeoff_attitude_lock call
    high_run,                   \* history: consecutive calls, up to the last, with the high-throttle condition true
    ctrl_in,                    \* find_ctrl_setting's arguments: d_theta, w_0, w_dot_meas, ctrl_cmd_prev
    ctrl_out,                   \* what the correction formulas returned: ran, w_dot_target, ctrl_effectiveness, drag_coeff
    tpa_in,                     \* two throttle settings handed to the rate loop, lo <= hi
    tpa_out,                    \* the D-term scalers run_rate_quad derived for them: ran, lo, hi
    mix_throttles,              \* the throttle settings the stick takes in this run
    mix_in,                     \* the efforts and throttle of the last change_attitude call
    autopilot_commands,         \* state_volatile.autopilot_commands
    ap_store                    \* the last autopilot step of update_isr: ran, stored, has_taken_off

vars == <<fixed_wing, control_channel_data, arm_status, has_taken_off,
          arm_signals_received, disarm_signals_received,
          RECEIVED_INITIAL_DISARM, ARM_COMMANDED_WITHOUT_IDLE,
          update_pending, imu_pc, imu_isr_loop_i, PAYLOAD, frames_sent,
          ESC_TELEM, arm_run, disarm_run, call_throttle, seen_disarm,
          seen_disarm_idle, nonidle_arm_latched,
          current_pwr, rotor_duty, control_posits, elevon_posit, last_output,
          coeffs, pid_state, fw_pid_state, pid_rate,
          autopilot_status, input_mode, optional_sensors, params, inputs,
          attitudes_commanded, rates_commanded, pid_attitude,
          velocities_commanded, fw_attitudes_commanded, ap_last, ap_seq,
          link_lost, lost_link_timer, lost_link_pending, system_status,
          link_stats, since_ch_data, since_packet, pilot_ap, link_event,
          PAYLOAD_REC_BB, rotor_rpms, esc_rpm_fault, rec_packet, rec_result,
          firmware_build, enc_cmd, enc_telem, enc_duties, wire_frame, wire_flip,
          bus_pc, CH_B_REC_MODE, pin_mode, timer_dir, timer_en, dma_xfer, dma_count,
          dma_tc, isr_branch, setup_pc, setup_i, motors_reversed, frame_delayed, cmd_sent,
          time_with_high_throttle, time_with_low_throttle, lock_in, high_run,
          ctrl_in, ctrl_out,
          tpa_in, tpa_out,
          mix_throttles, mix_in,
          autopilot_commands, ap_store>>

-----------------------------------------------------------------------------
(* Bounds of the model *)

\* history counters of consecutive signals saturate here
MaxRun == 11
\* frames_sent is kept modulo this
FrameWrap == 2
\* the fixed-wing altitude hold feeds its PID output back as the next pitch
\* set point; runs are followed while the set point stays within this
MaxSetpoint == 400
\* powers handed to the encoder: k / PowerSteps of full power, k in 0..PowerSteps
PowerSteps == 40
\* model ticks of time in one second
TicksPerSecond == 3

-----------------------------------------------------------------------------
(* Program constants *)

NUM_ARM_DISARM_SIGNALS_REQUIRED == 5
\* 0.005, in thousandths
THROTTLE_MAX_TO_ARM == 5
NUM_MOTORS == 4
BIDIR_EN == TRUE
\* firmware/flight_ctrls.rs: 0.1 each, carried as the factor 1/0.1
PITCH_S_COEFF_INV == 10
ROLL_S_COEFF_INV == 10
YAW_S_COEFF_INV == 10
\* flying_wing.rs, in thousandths: 0.02, 1., -1., 1.; and the factor 5.
MIN_MOTOR_POWER == 20
MAX_MOTOR_POWER == 1000
ELEVON_MIN == -1000
ELEVON_MAX == 1000
ROLL_COEFF == 5
\* autopilot.rs: TAU / 6., in milliradians
MAX_BANK == 1047
\* src/pid.rs: 0.4, in tenths
INTEGRATOR_CLAMP_MAX_QUAD == 4
INTEGRATOR_CLAMP_MIN_QUAD == -INTEGRATOR_CLAMP_MAX_QUAD
\* firmware/pid.rs: 10., in tenths
INTEGRATOR_CLAMP_MAX == 100
INTEGRATOR_CLAMP_MIN == -INTEGRATOR_CLAMP_MAX
\* src/protocols/dshot.rs (g4) and firmware/protocols/dshot.rs (g4): the timer
\* period that the duty values of a frame's bits are fractions of
DSHOT_ARR_600 == 567
fw_DSHOT_ARR_600 == 282
\* firmware/flight_ctrls/common.rs: 1., in seconds
LOST_LINK_TIMEOUT == 1
\* safety.rs: 100. and 20., in metres
LOST_LINK_RTB_ALT == 100
ALT_EPSILON_BEFORE_LATERAL == 20
\* safety.rs, takeoff attitude lock: 0.2 and 0.07 in thousandths, 1. and 5. in
\* seconds, 0.17 rad in milliradians
TAKEOFF_POWER_THRESH == 200
IDLE_POWER_THRESH == 70
TAKEOFF_POWER_TIME == 1
IDLE_POWER_TIME == 5
UPRIGHT_THRESH == 170
\* src/protocols/dshot.rs: how often setup_motor_dir sends each command, and
\* how often it sends zero throttle before them (`for i in 0..30`)
REPEAT_COMMAND_COUNT == 10
ZERO_THROTTLE_COUNT == 30
\* firmware/protocols/dshot.rs setup_motor_dir: `for _ in 0..6`
fw_REPEAT_COMMAND_COUNT == 6

\* throttle stick values the radio can deliver, in thousandths:
\* idle, above the arm threshold but below the handler's floor, and half
ThrottleVals == {0, 10, 500}

\* control efforts handed to the mixers, and their throttle, in thousandths
EffortVals == {0, 50}
MixThrottleVals == {0, 1000}
\* powers left in current_pwr by earlier calls, and the half throttle of a hover
StoredPowerVals == {0, 500, 1000}
HoverThrottleVals == {500}
WingDeltaVals == {-300, 0, 300}

\* PID inputs, in tenths: set points and measurements (their differences are
\* even, so the midpoint rule of the integral term is exact), gains, and the
\* time step in ticks
SetPtVals == {-4, 0, 2, 4}
MeasurementVals == {0, 4}
KpVals == {1, 2}
KiVals == {1, 2}
DtVals == {1, 2}
\* firmware PID inputs: large enough for the +-10.0 clamp to act
FwSetPtVals == {-40, 0, 40}
\* commanded rates (pitch, roll, yaw) handed to the rate loop, in tenths
RatesCommandedVals == {[pitch |-> 0, roll |-> 0, yaw |-> 0],
                       [pitch |-> 2, roll |-> -2, yaw |-> 2]}

Min(a, b) == IF a < b THEN a ELSE b
Max(a, b) == IF a > b THEN a ELSE b

-----------------------------------------------------------------------------
(* ArmStatus, safety.rs *)

ArmStatus == IF fixed_wing
             THEN {"Disarmed", "ControlsArmed", "MotorsControlsArmed"}
             ELSE {"Disarmed", "Armed"}

MOTORS_ARMED == IF fixed_wing THEN "MotorsControlsArmed" ELSE "Armed"


\* the arm-switch positions the radio can deliver
ControllerArmVals == ArmStatus

\* ArmedCount with the bug "an arm signal does not restart the disarm count"
ArmedCount_NoRestart(s, controller_arm_status) ==
    IF controller_arm_status # MOTORS_ARMED
    THEN (s.disarm_signals_received + 1) % 256
    ELSE s.disarm_signals_received

(* handle_arm_status, MOTORS_ARMED arm: the disarm-signal counter.         *)
(* `s` is the record of everything the function can write.                 *)
ArmedCount(s, controller_arm_status) ==
    IF controller_arm_status # MOTORS_ARMED
    THEN (s.disarm_signals_received + 1) % 256
    ELSE 0

(* handle_arm_status, MOTORS_ARMED arm of the match *)
ArmedBranch(s, controller_arm_status) ==
    LET n == ArmedCount(s, controller_arm_status) IN
    IF n >= NUM_ARM_DISARM_SIGNALS_REQUIRED
    THEN [s EXCEPT !.disarm_signals_received = 0,
                   \* On fixed, this could be either disarmed, or controls armed.
                   !.arm_status = controller_arm_status,
                   \* (the integrator resets are commented out in the source)
                   !.has_taken_off = FALSE]
    ELSE [s EXCEPT !.disarm_signals_received = n]

\* DisarmedCount with the bug "a non-arm signal does not restart the arm count"
DisarmedCount_NoReset(s, controller_arm_status) ==
    IF controller_arm_status = MOTORS_ARMED
    THEN [s EXCEPT !.arm_signals_received = (s.arm_signals_received + 1) % 256]
    ELSE [s EXCEPT !.RECEIVED_INITIAL_DISARM = TRUE,
                   !.ARM_COMMANDED_WITHOUT_IDLE = FALSE]

(* handle_arm_status, Disarmed arm: the signal bookkeeping before the gate *)
DisarmedCount(s, controller_arm_status) ==
    IF controller_arm_status = MOTORS_ARMED
    THEN [s EXCEPT !.arm_signals_received = (s.arm_signals_received + 1) % 256]
    ELSE [s EXCEPT !.RECEIVED_INITIAL_DISARM = TRUE,
                   !.ARM_COMMANDED_WITHOUT_IDLE = FALSE,
                   !.arm_signals_received = 0]

\* ArmGate with the bug "a rejected arm attempt does not set the latch"
ArmGate_NoLatch(s, throttle) ==
    IF ~s.ARM_COMMANDED_WITHOUT_IDLE
    THEN IF throttle < THROTTLE_MAX_TO_ARM
         THEN IF ~s.RECEIVED_INITIAL_DISARM
              THEN s
              ELSE [s EXCEPT !.arm_status = MOTORS_ARMED]
         ELSE s
    ELSE s

(* handle_arm_status, Disarmed arm: what the Nth signal does *)
ArmGate(s, throttle) ==
    IF ~s.ARM_COMMANDED_WITHOUT_IDLE
    THEN IF throttle < THROTTLE_MAX_TO_ARM
         THEN IF ~s.RECEIVED_INITIAL_DISARM
              THEN s
              ELSE [s EXCEPT !.arm_status = MOTORS_ARMED]
         ELSE \* Throttle not idle; set the flag requiring arm switch cycle to arm.
              [s EXCEPT !.ARM_COMMANDED_WITHOUT_IDLE = TRUE]
    ELSE s

(* handle_arm_status, Disarmed arm of the match *)
DisarmedBranch(s, controller_arm_status, throttle) ==
    LET c == DisarmedCount(s, controller_arm_status) IN
    IF c.arm_signals_received >= NUM_ARM_DISARM_SIGNALS_REQUIRED
    THEN ArmGate([c EXCEPT !.arm_signals_received = 0], throttle)
    ELSE c

(* safety.rs handle_arm_status *)
handle_arm_status(s, controller_arm_status, throttle) ==
    IF s.arm_status = MOTORS_ARMED
    THEN ArmedBranch(s, controller_arm_status)
    ELSE IF s.arm_status = "Disarmed"
    THEN DisarmedBranch(s, controller_arm_status, throttle)
    ELSE \* fixed-wing ControlsArmed: only enable_servos()
         s

\* the state handle_arm_status works on, as a record
ArmState ==
    [arm_signals_received       |-> arm_signals_received,
     disarm_signals_received    |-> disarm_signals_received,
     arm_status                 |-> arm_status,
     has_taken_off              |-> has_taken_off,
     RECEIVED_INITIAL_DISARM    |-> RECEIVED_INITIAL_DISARM,
     ARM_COMMANDED_WITHOUT_IDLE |-> ARM_COMMANDED_WITHOUT_IDLE]


-----------------------------------------------------------------------------
(* DSHOT frame encoder, protocols/dshot.rs *)

RECURSIVE Xor(_, _)
\* bitwise exclusive or of two naturals
Xor(a, b) ==
    IF a = 0 THEN b
    ELSE IF b = 0 THEN a
    ELSE (((a % 2) + (b % 2)) % 2) + 2 * Xor(a \div 2, b \div 2)

\* calc_crc with the bug "the top nibble is left out"
calc_crc_TwoNibbles(packet) ==
    LET x == Xor(packet, packet \div 16) IN
    IF BIDIR_EN THEN 15 - (x % 16) ELSE x % 16

(* calc_crc: the checksum nibble of a 12-bit packet, inverted when BIDIR_EN *)
calc_crc(packet) ==
    LET x == Xor(Xor(packet, packet \div 16), packet \div 256) IN
    IF BIDIR_EN THEN 15 - (x % 16) ELSE x % 16

\* `as u16` on a float: saturating
AsU16(x) == Max(0, Min(65535, x))

\* PowerDataWord with the bug "the offset of 48 is left out"
PowerDataWord_NoOffset(pwr) == AsU16((pwr * 1999) \div 1000) % 65536

(* setup_payload, CmdType::Power: the 11-bit data word of a power in thousandths *)
PowerDataWord(pwr) == (AsU16((pwr * 1999) \div 1000) + 48) % 65536

(* setup_payload: the 16-bit frame of a data word.  The DMA buffer holds   *)
(* one duty value (DUTY_HIGH / DUTY_LOW) per bit of it, MSB first.         *)
setup_payload(data_word, telem) ==
    LET packet == ((data_word * 2) % 65536) + (IF telem THEN 1 ELSE 0)
    IN  ((packet * 16) % 65536) + calc_crc(packet)

(* set_power: the four frames of one burst *)
set_power(power1, power2, power3, power4) ==
    <<setup_payload(PowerDataWord(power1), ESC_TELEM),
      setup_payload(PowerDataWord(power2), ESC_TELEM),
      setup_payload(PowerDataWord(power3), ESC_TELEM),
      setup_payload(PowerDataWord(power4), ESC_TELEM)>>

(* stop_all: set throttles to 0 *)
stop_all == set_power(0, 0, 0, 0)

\* the 11-bit data word carried by a frame
DataWord(frame) == frame \div 32

\* a burst that commands the minimum throttle step on every motor
IsAllStop(payload) == \A m \in 1..NUM_MOTORS : DataWord(payload[m]) = 48

-----------------------------------------------------------------------------
(* RTIC tasks of src/main.rs: priorities and shared resources *)

TaskPriority ==
    [imu_data_isr  |-> 8,
     dshot_isr_r34 |-> 6,
     update_isr    |-> 5,
     crsf_isr      |-> 5,
     imu_tc_isr    |-> 4,
     usb_isr       |-> 4,
     lost_link_isr |-> 1]

TaskShared ==
    [imu_data_isr  |-> {"cs_imu", "dma", "spi1"},
     dshot_isr_r34 |-> {"motor_timers", "dma"},
     update_isr    |-> {"current_params", "power_used", "autopilot_status", "user_cfg",
                        "flight_ctrl_filters", "ahrs", "control_channel_data",
                        "motor_timers", "rotor_rpms", "lost_link_timer", "link_lost",
                        "altimeter", "i2c1", "i2c2", "state_volatile", "system_status",
                        "batt_curr_adc", "dma", "dma2"},
     crsf_isr      |-> {"dma", "control_channel_data", "link_stats", "rf_limiter_timer",
                        "link_lost", "lost_link_timer", "system_status"},
     imu_tc_isr    |-> {"dma", "spi1", "current_params", "params_prev",
                        "control_channel_data", "autopilot_status", "imu_filters",
                        "flight_ctrl_filters", "cs_imu", "user_cfg", "motor_pid_state",
                        "motor_pid_coeffs", "motor_timers", "ahrs", "state_volatile"},
     usb_isr       |-> {"usb_dev", "usb_serial", "current_params", "control_channel_data",
                        "link_stats", "user_cfg", "state_volatile", "system_status",
                        "motor_timers", "batt_curr_adc", "dma"},
     lost_link_isr |-> {"lost_link_timer", "link_lost", "state_volatile", "user_cfg",
                        "autopilot_status", "current_params", "system_status"}]

Tasks == DOMAIN TaskPriority

SetMax(S) == IF S = {} THEN 0 ELSE CHOOSE x \in S : \A y \in S : y <= x

\* RTIC: the ceiling of a resource is the highest priority among the tasks sharing it
Ceiling(r) == SetMax({TaskPriority[t] : t \in {u \in Tasks : r \in TaskShared[u]}})

\* ImuLockedResources with the bug "arm status is tested outside the lock closure"
ImuLockedResources_None == {}

\* the resources held inside the lock closure of imu_tc_isr
ImuLockedResources ==
    {"current_params", "params_prev", "ahrs", "control_channel_data",
     "autopilot_status", "motor_timers", "motor_pid_state", "motor_pid_coeffs",
     "dma", "user_cfg", "spi1", "state_volatile", "flight_ctrl_filters"}

\* the priority the processor runs at, given where imu_tc_isr stands
RunningPriority ==
    IF imu_pc = "idle" THEN 0
    ELSE Max(TaskPriority.imu_tc_isr,
             SetMax({Ceiling(r) : r \in ImuLockedResources}))

\* a task preempts when its priority is above the running priority
CanRun(task) == TaskPriority[task] > RunningPriority

-----------------------------------------------------------------------------
(* Mixers: firmware/flight_ctrls.rs (quad) and flight_ctrls/flying_wing.rs  *)

Clamp(x, lo, hi) == IF x < lo THEN lo ELSE IF x > hi THEN hi ELSE x

\* RotorPower::clamp with the bug "a power above 1 is reduced by 1"
RotorPower_clamp_Wrap(self) ==
    [k \in {"p1", "p2", "p3", "p4"} |->
        IF self[k] < 0 THEN 0 ELSE IF self[k] > 1000 THEN self[k] - 1000 ELSE self[k]]

\* RotorPower::clamp
RotorPower_clamp(self) ==
    [p1 |-> Clamp(self.p1, 0, 1000), p2 |-> Clamp(self.p2, 0, 1000),
     p3 |-> Clamp(self.p3, 0, 1000), p4 |-> Clamp(self.p4, 0, 1000)]

\* change_attitude, up to the call of RotorPower::set
change_attitude(pitch, roll, yaw, throttle, pwr) ==
    LET q1 == pwr.p1 + pitch * PITCH_S_COEFF_INV + roll * ROLL_S_COEFF_INV
                     + yaw * YAW_S_COEFF_INV
        q2 == pwr.p2 + pitch * PITCH_S_COEFF_INV - roll * ROLL_S_COEFF_INV
                     - yaw * YAW_S_COEFF_INV
        q3 == pwr.p3 - pitch * PITCH_S_COEFF_INV - roll * ROLL_S_COEFF_INV
                     + yaw * YAW_S_COEFF_INV
        q4 == pwr.p4 - pitch * PITCH_S_COEFF_INV + roll * ROLL_S_COEFF_INV
                     - yaw * YAW_S_COEFF_INV
    IN  [p1 |-> (q1 * throttle) \div 1000, p2 |-> (q2 * throttle) \div 1000,
         p3 |-> (q3 * throttle) \div 1000, p4 |-> (q4 * throttle) \div 1000]

\* ControlPositions::clamp
ControlPositions_clamp(self) ==
    [motor        |-> Clamp(self.motor, MIN_MOTOR_POWER, MAX_MOTOR_POWER),
     elevon_left  |-> Clamp(self.elevon_left, ELEVON_MIN, ELEVON_MAX),
     elevon_right |-> Clamp(self.elevon_right, ELEVON_MIN, ELEVON_MAX)]

\* flying_wing.rs apply_controls, up to the call of ControlPositions::set
apply_controls(pitch_delta, roll_delta, throttle) ==
    ControlPositions_clamp(
        [motor        |-> throttle,
         elevon_left  |-> pitch_delta + roll_delta * ROLL_COEFF,
         elevon_right |-> pitch_delta - roll_delta * ROLL_COEFF])

-----------------------------------------------------------------------------
(* The PID primitive (src/pid.rs and firmware/pid.rs).  A PidState carries  *)
(* measurement, e, p and i; the derivative term, which both versions obtain *)
(* from an external biquad filter, takes no part in the integral or its     *)
(* clamp and is not carried.                                                *)

Abs(x) == IF x < 0 THEN -x ELSE x

\* PidState::default()
PidStateDefault == [measurement |-> 0, e |-> 0, p |-> 0, i |-> 0]

\* PidGroup::default()
PidGroupDefault ==
    [pitch |-> PidStateDefault, roll |-> PidStateDefault,
     yaw |-> PidStateDefault, thrust |-> PidStateDefault]

\* PidGroup::reset_integrator
reset_integrator(pid) ==
    [pid EXCEPT !.pitch.i = 0, !.roll.i = 0, !.yaw.i = 0, !.thrust.i = 0]

\* anti_windup_clamp with the bug "the integral is not clamped"
anti_windup_clamp_NoClamp(self, error_p) == self

\* src/pid.rs PidState::anti_windup_clamp: dynamic integrator clamping
anti_windup_clamp(self, error_p) ==
    LET lim_max_int == IF INTEGRATOR_CLAMP_MAX_QUAD > error_p
                       THEN INTEGRATOR_CLAMP_MAX_QUAD - error_p
                       ELSE 0
        lim_min_int == IF INTEGRATOR_CLAMP_MIN_QUAD < error_p
                       THEN INTEGRATOR_CLAMP_MIN_QUAD - error_p
                       ELSE 0
    IN  IF self.i > lim_max_int THEN [self EXCEPT !.i = lim_max_int]
        ELSE IF self.i < lim_min_int THEN [self EXCEPT !.i = lim_min_int]
        ELSE self

\* src/pid.rs calc_pid_error
calc_pid_error(set_pt, measurement, prev_pid, k_p, k_i, dt) ==
    LET error   == set_pt - measurement
        error_p == k_p * error
        error_i == ((k_i * (error + prev_pid.e) * dt) \div 2) + prev_pid.i
        result  == [measurement |-> measurement, e |-> error,
                    p |-> error_p, i |-> error_i]
    IN  anti_windup_clamp(result, error_p)

\* firmware/pid.rs PidState::anti_windup_clamp: fixed clamp of the integral
fw_anti_windup_clamp(self) ==
    IF self.i > INTEGRATOR_CLAMP_MAX THEN [self EXCEPT !.i = INTEGRATOR_CLAMP_MAX]
    ELSE IF self.i < INTEGRATOR_CLAMP_MIN THEN [self EXCEPT !.i = INTEGRATOR_CLAMP_MIN]
    ELSE self

\* firmware/pid.rs calc_pid_error
fw_calc_pid_error(set_pt, measurement, prev_pid, k_p, k_i, dt) ==
    LET error   == set_pt - measurement
        error_p == k_p * error
        error_i == ((k_i * dt * (error + prev_pid.e)) \div 2) + prev_pid.i
        result  == [measurement |-> measurement, e |-> error,
                    p |-> error_p, i |-> error_i]
    IN  fw_anti_windup_clamp(result)

\* src/pid.rs run_rate_quad: the three rate PIDs
run_rate_quad(pid, rc, prm, c, dt) ==
    [pid EXCEPT
       !.pitch = calc_pid_error(rc.pitch, prm.v_pitch, pid.pitch, c.k_p, c.k_i, dt),
       !.roll  = calc_pid_error(rc.roll, prm.v_roll, pid.roll, c.k_p, c.k_i, dt),
       !.yaw   = calc_pid_error(rc.yaw, prm.v_yaw, pid.yaw, c.k_p, c.k_i, dt)]

-----------------------------------------------------------------------------
(* Autopilot data (src/autopilot.rs, firmware/flight_ctrls/common.rs).      *)
(* Angles are in milliradians, altitudes in metres.                         *)

\* Option<f32>
None == [some |-> FALSE, v |-> 0]
Some(x) == [some |-> TRUE, v |-> x]
unwrap_or(o, dflt) == IF o.some THEN o.v ELSE dflt

\* Option<(AltType, f32)>
NoAltHold == [some |-> FALSE, alt_type |-> "Msl", v |-> 0]
AltHold(alt_type, alt) == [some |-> TRUE, alt_type |-> alt_type, v |-> alt]

\* Option<Location>.  Points lie on the equator: lat is 0 and lon counts
\* arcs of 100 m along it
NoPoint == [some |-> FALSE, lat |-> 0, lon |-> 0, alt_msl |-> 0]
Point(lon, alt_msl) == [some |-> TRUE, lat |-> 0, lon |-> lon, alt_msl |-> alt_msl]

\* AutopilotStatus::default()
AutopilotStatusDefault ==
    [alt_hold |-> NoAltHold, takeoff |-> FALSE, land |-> FALSE,
     direct_to_point |-> NoPoint, loiter |-> NoPoint, orbit |-> NoPoint,
     recover |-> None]

\* Params::default()
ParamsDefault ==
    [lat |-> 0, lon |-> 0, baro_alt_msl |-> 0, tof_alt |-> 0, s_yaw_heading |-> 0,
     v_pitch |-> 0, v_roll |-> 0, v_yaw |-> 0]

\* CtrlInputs with Option fields, all None (src)
CtrlInputsNone == [pitch |-> None, roll |-> None, yaw |-> None, thrust |-> None]

\* CtrlInputs of stick deflections, centred (firmware)
CtrlInputsZero == [pitch |-> 0, roll |-> 0, yaw |-> 0, thrust |-> 0]

\* a plain f32 value among the symbolic set-point values
F32(x) == <<"f32", x, 0, 0>>

\* CtrlInputs::default() among the symbolic set-point values
CtrlInputsUnset == [pitch |-> F32(0), roll |-> F32(0), yaw |-> F32(0), thrust |-> F32(0)]

\* autopilot inputs: the point to fly to, loiter at or orbit, altitude holds,
\* the recovery altitude, and the pitch stick
PointVals == {NoPoint, Point(1, 100)}
AltHoldVals == {NoAltHold, AltHold("Msl", 100), AltHold("Agl", 5)}
RecoverVals == {None, Some(50)}
StickVals == {0, 1}
\* direct-to-point runs: the aircraft's heading in milliradians, its altitude,
\* and targets to the east and west of it, below, level and above
HeadingVals == {-1571, 0, 1400, 1571}
DirectPointVals == {Point(lon, alt) : lon \in {-2, -1, 1}, alt \in {-100, 0, 100, 200}}
InputMode == {"Acro", "Attitude", "Command"}

-----------------------------------------------------------------------------
(* Autopilot routines.  Values computed by functions that are not among the *)
(* sources (map_linear behind InputMap, enroute_speed_ver, takeoff_speed,   *)
(* landing_speed) are kept as terms <<function, arguments>>.                *)

Sign(x) == IF x > 0 THEN 1 ELSE IF x < 0 THEN -1 ELSE 0

\* find_bearing for points on the equator: atan2(sin(dlon), 0) % TAU
find_bearing(target, aircraft) == 1571 * Sign(target[2] - aircraft[2])

\* find_distance for points on the equator: R * |dlon|, in metres
find_distance(target, aircraft) == 100 * Abs(target[2] - aircraft[2])

\* f32::atan of num / den on the ratios that occur, in milliradians
atan(num, den) ==
    CASE num = 0 -> 0
      [] num = den -> 785
      [] num = -den -> -785

\* PidState::out, without the derivative term
out(self) == self.p + self.i

\* InputMap::calc_pitch_angle, calc_roll_angle, calc_yaw_rate with the ranges
\* of InputMap::default(), in milliradians
calc_pitch_angle(input) == <<"map_linear", input, -1571, 1571>>
calc_roll_angle(input) == <<"map_linear", input, -1571, 1571>>
calc_yaw_rate(input) == <<"map_linear", input, -10000, 10000>>

enroute_speed_ver(dist, z_agl) == <<"enroute_speed_ver", dist, z_agl, 0>>
takeoff_speed(z_agl) == <<"takeoff_speed", z_agl, 0, 0>>
landing_speed(z_agl) == <<"landing_speed", z_agl, 0, 0>>

\* apply_chain_quad with direct-to-point listed ahead of takeoff and land
apply_chain_quad_PointFirst(ap, prm, att, sens) ==
    IF ap.direct_to_point.some
    THEN IF sens.gps_connected
         THEN [att EXCEPT !.yaw =
                 Some(find_bearing(<<prm.lat, prm.lon>>,
                                   <<ap.direct_to_point.lat, ap.direct_to_point.lon>>))]
         ELSE att
    ELSE att

\* quad AutopilotStatus::apply: the chain of mutually exclusive modes
apply_chain_quad(ap, prm, att, sens) ==
    IF ap.takeoff THEN att
    ELSE IF ap.land THEN att
    ELSE IF ap.direct_to_point.some
    THEN IF sens.gps_connected
         THEN [att EXCEPT !.yaw =
                 Some(find_bearing(<<prm.lat, prm.lon>>,
                                   <<ap.direct_to_point.lat, ap.direct_to_point.lon>>))]
         ELSE att
    ELSE IF ap.loiter.some THEN att
    ELSE att

\* the distance to the held altitude
alt_hold_dist(ap, prm) ==
    IF ap.alt_hold.alt_type = "Msl" THEN ap.alt_hold.v - prm.baro_alt_msl
    ELSE ap.alt_hold.v - prm.tof_alt

\* quad AutopilotStatus::apply
apply_quad(ap, prm, att, rates, pid, c, sens) ==
    LET att1 == apply_chain_quad(ap, prm, att, sens)
        att2 == IF ~ap.alt_hold.some /\ ~ap.takeoff /\ ~ap.land
                   /\ ~ap.direct_to_point.some
                THEN [att1 EXCEPT !.thrust = None]
                ELSE att1
        hold == /\ ap.alt_hold.some /\ ~ap.takeoff /\ ~ap.land
                /\ ~(ap.alt_hold.alt_type = "Agl" /\ ~sens.tof_connected)
        thrust == calc_pid_error(unwrap_or(att2.thrust, 0), alt_hold_dist(ap, prm),
                                 pid.thrust, c.k_p, c.k_i, 1)
    IN  [attitudes_commanded |-> att2,
         rates_commanded |-> IF hold THEN [rates EXCEPT !.thrust = Some(out(thrust))]
                             ELSE rates,
         pid |-> IF hold THEN [pid EXCEPT !.thrust = thrust] ELSE pid]

\* fixed-wing AutopilotStatus::apply: the chain of mutually exclusive modes
apply_chain_fixed_wing(ap, prm, att, sens) ==
    IF ap.takeoff THEN att
    ELSE IF ap.land THEN att
    ELSE IF ap.orbit.some THEN att
    ELSE IF ap.direct_to_point.some
    THEN IF sens.gps_connected
         THEN LET pt == ap.direct_to_point
                  target_heading == find_bearing(<<prm.lat, prm.lon>>, <<pt.lat, pt.lon>>)
                  target_pitch ==
                      atan(pt.alt_msl - prm.baro_alt_msl,
                           find_distance(<<pt.lat, pt.lon>>, <<prm.lat, prm.lon>>))
              IN  [att EXCEPT
                     !.roll = Some(Max((target_heading - prm.s_yaw_heading) * 2, MAX_BANK)),
                     !.pitch = Some(target_pitch)]
         ELSE att
    ELSE att

\* fixed-wing AutopilotStatus::apply
apply_fixed_wing(ap, prm, att, pid, c, sens) ==
    LET att1 == apply_chain_fixed_wing(ap, prm, att, sens)
        free == ~ap.takeoff /\ ~ap.land /\ ~ap.direct_to_point.some
        hold == /\ ap.alt_hold.some /\ free
                /\ ~(ap.alt_hold.alt_type = "Agl" /\ ~sens.tof_connected)
        pitch == calc_pid_error(unwrap_or(att1.pitch, 0), alt_hold_dist(ap, prm),
                                pid.pitch, c.k_p, c.k_i, 1)
        att2 == IF hold THEN [att1 EXCEPT !.pitch = Some(out(pitch))] ELSE att1
        att3 == IF ~ap.alt_hold.some /\ free
                THEN [att2 EXCEPT !.pitch = None, !.roll = None]
                ELSE att2
    IN  [attitudes_commanded |-> att3,
         pid |-> IF hold THEN [pid EXCEPT !.pitch = pitch] ELSE pid]

\* the set points the recover block of run_velocity and run_attitude writes
RecoverSetpoints(alt_msl_commanded, prm) ==
    [pitch  |-> calc_pitch_angle(0),
     roll   |-> calc_roll_angle(0),
     yaw    |-> calc_yaw_rate(0),
     thrust |-> enroute_speed_ver(alt_msl_commanded - prm.baro_alt_msl, prm.tof_alt)]

\* run_velocity and run_attitude: the recover block, then the alt_hold block
recover_then_alt_hold(ap, prm, cmd) ==
    LET c1 == IF ap.recover.some THEN RecoverSetpoints(ap.recover.v, prm) ELSE cmd
    IN  IF ap.alt_hold.some
        THEN [c1 EXCEPT !.thrust = enroute_speed_ver(alt_hold_dist(ap, prm), prm.tof_alt)]
        ELSE c1

\* src/pid.rs run_velocity: the commanded velocities (its match on the input
\* mode changes nothing)
run_velocity(ap, prm, vel) == recover_then_alt_hold(ap, prm, vel)

\* firmware run_attitude, Attitude mode: the set points taken from the sticks
StickSetpoints(inp) ==
    [pitch  |-> calc_pitch_angle(inp.pitch),
     roll   |-> calc_roll_angle(inp.roll),
     yaw    |-> calc_yaw_rate(inp.yaw),
     thrust |-> F32(inp.thrust)]

\* firmware run_attitude, Command mode with takeoff set
TakeoffSetpoints(prm) ==
    [pitch |-> F32(0), roll |-> F32(0), yaw |-> F32(0),
     thrust |-> takeoff_speed(prm.tof_alt)]

\* firmware run_attitude, Command mode with land set
LandSetpoints(prm) ==
    [pitch |-> F32(0), roll |-> F32(0), yaw |-> F32(0),
     thrust |-> landing_speed(prm.tof_alt)]

\* firmware/pid.rs run_attitude: the commanded attitudes
run_attitude(ap, prm, inp, mode, att) ==
    LET a1 == recover_then_alt_hold(ap, prm, att)
    IN  CASE mode = "Acro" -> a1
          [] mode = "Attitude" -> StickSetpoints(inp)
          [] mode = "Command" ->
                IF ap.takeoff THEN TakeoffSetpoints(prm)
                ELSE IF ap.land THEN LandSetpoints(prm)
                ELSE a1

-----------------------------------------------------------------------------
(* Lost link: the TIM17 one-pulse timer (main.rs init), its reset in        *)
(* crsf_isr, and the recovery of safety.rs                                  *)

\* SensorStatus.  state.rs is not among the sources; the code that is names
\* only Pass, and every other status is carried as "Other"
SensorStatus == {"Pass", "Other"}

\* the payloads of a link-statistics packet that are told apart
LinkStatsVals == {"stats_a", "stats_b"}

\* barometric altitudes the recovery is run at, in metres: on the ground and
\* at the recovery altitude
RecoveryAltVals == {0, LOST_LINK_RTB_ALT}

\* state_volatile.base_point, the recorded base location
base_point == Point(2, 0)

\* the period of TIM17 (frequency 1. / LOST_LINK_TIMEOUT), in ticks
LostLinkPeriod == LOST_LINK_TIMEOUT * TicksPerSecond

\* restart_lost_link_timer with the bug "the count is not reset"
restart_lost_link_timer_NoReset(timer) == [timer EXCEPT !.enabled = TRUE]

(* crsf_isr: lost_link_timer.disable(); .reset_count(); .enable() *)
restart_lost_link_timer(timer) == [enabled |-> TRUE, count |-> 0]

(* lost_link_isr: timer.reset_count(); timer.disable() *)
stop_lost_link_timer(timer) == [enabled |-> FALSE, count |-> 0]

(* safety.rs excecute_link_lost (main.rs calls it as safety::link_lost):   *)
(* the AutopilotStatus it leaves                                            *)
excecute_link_lost(sys, ap, prm, base_pt) ==
    LET a1   == [ap EXCEPT !.alt_hold = AltHold("Msl", LOST_LINK_RTB_ALT)]
        near == Abs(prm.baro_alt_msl - LOST_LINK_RTB_ALT) < ALT_EPSILON_BEFORE_LATERAL
    IN  IF ~fixed_wing
        THEN IF sys.gnss_can = "Pass" /\ near
             THEN [a1 EXCEPT !.direct_to_point = base_pt]
             ELSE a1
        ELSE IF sys.gnss_can = "Pass"
             THEN a1
             ELSE IF sys.magnetometer = "Pass" /\ near
                  THEN [a1 EXCEPT !.direct_to_point = base_pt]
                  ELSE a1

-----------------------------------------------------------------------------
(* ESC telemetry of bidirectional DSHOT, protocols/dshot.rs: from the      *)
(* received line levels to the stored RPM                                   *)

REC_BUF_LEN == 20

\* bit k of a natural
Bit(x, k) == (x \div (2 ^ k)) % 2

\* Result<_, RpmError>
Ok(v) == [ok |-> TRUE, v |-> v, err |-> "none"]
Err(e, dflt) == [ok |-> FALSE, v |-> dflt, err |-> e]

\* an f32 that may be infinite, in thousandths
Finite(x) == [inf |-> FALSE, v |-> x]
Infinity == [inf |-> TRUE, v |-> 0]

\* EscData
EscRpm(rpm) == [kind |-> "Rpm", rpm |-> rpm, telem_type |-> "none", val |-> 0]
EscTelem(telem_type, val) ==
    [kind |-> "Telem", rpm |-> Finite(0), telem_type |-> telem_type, val |-> val]

RECURSIVE SumBits(_, _)
\* the bits of arr[1..n], arr[i] weighing 2^(20 - (i - 1))
SumBits(arr, n) ==
    IF n = 0 THEN 0
    ELSE (IF arr[n] THEN 2 ^ (20 - (n - 1)) ELSE 0) + SumBits(arr, n - 1)

\* bool_array_to_u32: result |= (v as u32) << (20 - i), with i from 0
bool_array_to_u32(arr) == SumBits(arr, Len(arr))

(* gcr_step_1: val ^ (val >> 1) *)
gcr_step_1(val) == Xor(val, val \div 2)

(* reduce_bit_count_helper: one 5-bit GCR code to its nibble *)
reduce_bit_count_helper(val) ==
    CASE val = 25 -> Ok(0)
      [] val = 27 -> Ok(1)
      [] val = 18 -> Ok(2)
      [] val = 19 -> Ok(3)
      [] val = 29 -> Ok(4)
      [] val = 21 -> Ok(5)
      [] val = 22 -> Ok(6)
      [] val = 23 -> Ok(7)
      [] val = 26 -> Ok(8)
      [] val = 9  -> Ok(9)
      [] val = 10 -> Ok(10)
      [] val = 11 -> Ok(11)
      [] val = 30 -> Ok(12)
      [] val = 13 -> Ok(13)
      [] val = 14 -> Ok(14)
      [] val = 15 -> Ok(15)
      [] OTHER    -> Err("Gcr", 0)

(* reduce_gcr_bit_count: 20 bits of GCR to the 16-bit packet *)
reduce_gcr_bit_count(val) ==
    LET nibble_0 == reduce_bit_count_helper(val % 32)
        nibble_1 == reduce_bit_count_helper((val \div 32) % 32)
        nibble_2 == reduce_bit_count_helper((val \div 1024) % 32)
        nibble_3 == reduce_bit_count_helper((val \div 32768) % 32)
    IN  IF ~nibble_0.ok THEN nibble_0
        ELSE IF ~nibble_1.ok THEN nibble_1
        ELSE IF ~nibble_2.ok THEN nibble_2
        ELSE IF ~nibble_3.ok THEN nibble_3
        ELSE Ok(nibble_0.v + 16 * nibble_1.v + 256 * nibble_2.v + 4096 * nibble_3.v)

(* rpm_from_data past the checksum test: the telemetry or RPM reading *)
esc_data_of_packet(packet) ==
    IF Bit(packet, 8) = 0
    THEN LET telem_type_val == packet \div 4096
             val == (packet \div 16) % 256
         IN  CASE telem_type_val = 2  -> Ok(EscTelem("Temp", val))
               [] telem_type_val = 4  -> Ok(EscTelem("Voltage", val))
               [] telem_type_val = 6  -> Ok(EscTelem("Current", val))
               [] telem_type_val = 8  -> Ok(EscTelem("Debug1", val))
               [] telem_type_val = 10 -> Ok(EscTelem("Debug2", val))
               [] telem_type_val = 12 -> Ok(EscTelem("Debug3", val))
               [] telem_type_val = 14 -> Ok(EscTelem("State", val))
               [] OTHER -> Err("TelemType", EscRpm(Finite(0)))
    ELSE LET shift == packet \div 8192
             base == (packet \div 16) % 512
             period_us == (base * (2 ^ shift)) % 65536
         IN  Ok(EscRpm(IF period_us = 0 THEN Infinity
                       ELSE Finite(1000000000 \div (period_us * 14))))

(* rpm_from_data: the checksum test, `crc != calc_crc(packet)` on the whole *)
(* 16-bit packet, then the telemetry or RPM reading.  The RPM,              *)
(* 1_000_000. / (period_us * 14.), is kept in thousandths.                  *)
rpm_from_data(packet) ==
    LET crc == packet % 16 IN
    IF crc # calc_crc(packet)
    THEN Err("Crc", EscRpm(Finite(0)))
    ELSE esc_data_of_packet(packet)

(* update_rpm_from_packet: the RPM it leaves, and whether it returned Err *)
update_rpm_from_packet(rpm, packet) ==
    IF packet.ok
    THEN LET r == rpm_from_data(packet.v) IN
         IF r.ok
         THEN [rpm |-> IF r.v.kind = "Rpm" THEN r.v.rpm ELSE rpm, is_err |-> FALSE]
         ELSE [rpm |-> rpm, is_err |-> TRUE]
    ELSE [rpm |-> rpm, is_err |-> TRUE]

\* the 16-bit packet recovered from one receive buffer
packet_of_buffer(buf) == reduce_gcr_bit_count(gcr_step_1(bool_array_to_u32(buf)))

(* update_rpms: the MotorRpm and fault flag it leaves.  The fourth packet  *)
(* is read from PAYLOAD_REC_BB_3, as the source has it.                     *)
update_rpms(rpms, fault, rec) ==
    LET packet1 == packet_of_buffer(rec[1])
        packet2 == packet_of_buffer(rec[2])
        packet3 == packet_of_buffer(rec[3])
        packet4 == packet_of_buffer(rec[3])
        u1 == update_rpm_from_packet(rpms.aft_right, packet1)
        u2 == update_rpm_from_packet(rpms.front_right, packet2)
        u3 == update_rpm_from_packet(rpms.aft_left, packet3)
        u4 == update_rpm_from_packet(rpms.front_left, packet4)
    IN  [rpms  |-> [aft_right |-> u1.rpm, front_right |-> u2.rpm,
                    aft_left |-> u3.rpm, front_left |-> u4.rpm],
         fault |-> (fault \/ u1.is_err \/ u2.is_err \/ u3.is_err \/ u4.is_err)]

\* the RPM field update_rpms writes for each motor line
RpmField == <<"aft_right", "front_right", "aft_left", "front_left">>

(* The ESC side of a return frame: the 16-bit packet, each nibble as its   *)
(* 5-bit GCR code, and the line levels whose gcr_step_1 gives those 20 bits *)
gcr_code(nibble) == CHOOSE c \in 0..31 : reduce_bit_count_helper(c) = Ok(nibble)

gcr_of_packet(packet) ==
    gcr_code(packet % 16) + 32 * gcr_code((packet \div 16) % 16)
        + 1024 * gcr_code((packet \div 256) % 16)
        + 32768 * gcr_code((packet \div 4096) % 16)

RECURSIVE line_levels(_, _, _)
\* bits k+1..20 of the value v with v ^ (v >> 1) = gcr on bits 0..19, given bit k
line_levels(gcr, k, vk) ==
    IF k = 20 THEN 0
    ELSE LET next == (Bit(gcr, k) + vk) % 2
         IN  next * (2 ^ (k + 1)) + line_levels(gcr, k + 1, next)

esc_return_frame(packet) ==
    LET v == line_levels(gcr_of_packet(packet), 0, 0)
    IN  [i \in 1..REC_BUF_LEN |-> Bit(v, 20 - (i - 1)) = 1]

\* packets an ESC returns, by nibbles n3 n2 n1 n0: two RPM readings
\* (periods 30 and 60 us), a temperature reading, and an RPM reading that
\* fails the checksum test of rpm_from_data
ReturnPacketVals == {480, 960, 8912, 256}

\* receive buffers: the frames of those packets, and a line that stayed
\* high (no valid GCR code)
ReturnFrameVals ==
    {esc_return_frame(pkt) : pkt \in ReturnPacketVals}
        \cup {[i \in 1..REC_BUF_LEN |-> FALSE]}

\* 16-bit packets handed to rpm_from_data, by nibbles
RecPacketVals ==
    {4096 * n3 + 256 * n2 + 16 * n1 + n0 :
        n3 \in {0, 2, 5}, n2 \in {0, 1, 14}, n1 \in {0, 14, 15}, n0 \in 0..15}

-----------------------------------------------------------------------------
(* DSHOT frames as they are written to the DMA buffer and read by the ESC  *)

DUTY_HIGH == (DSHOT_ARR_600 * 3) \div 4
DUTY_LOW == (DSHOT_ARR_600 * 3) \div 8
fw_DUTY_HIGH == (fw_DSHOT_ARR_600 * 3) \div 4
fw_DUTY_LOW == (fw_DSHOT_ARR_600 * 3) \div 8

\* Command codes used by setup_motor_dir
SpinDir1 == 7
SpinDir2 == 8
SaveSettings == 12
SpinDirNormal == 20
SpinDirReversed == 21

\* CmdType
CmdPower(pwr) == [kind |-> "Power", v |-> pwr]
CmdCommand(c) == [kind |-> "Command", v |-> c]

\* payload_duties with the bug "least significant bit first"
payload_duties_LsbFirst(frame, high, low) ==
    [k \in 1..16 |-> IF Bit(frame, k - 1) = 1 THEN high ELSE low]

(* setup_payload, the loop over the 16 bits: bit i of the frame goes to    *)
(* entry 15 - i of the motor's column of PAYLOAD (entries counted from 1    *)
(* here), as DUTY_HIGH or DUTY_LOW                                          *)
payload_duties(frame, high, low) ==
    [k \in 1..16 |-> IF Bit(frame, 16 - k) = 1 THEN high ELSE low]

RECURSIVE frame_of_duties(_, _, _)
\* the ESC's reading of the first n pulses: a long pulse is a 1, first pulse first
frame_of_duties(duties, n, high) ==
    IF n = 0 THEN 0
    ELSE 2 * frame_of_duties(duties, n - 1, high) + (IF duties[n] = high THEN 1 ELSE 0)

(* setup_payload: the data word of a CmdType *)
data_word_of(cmd) == IF cmd.kind = "Command" THEN cmd.v ELSE PowerDataWord(cmd.v)

(* firmware setup_payload: the checksum, never inverted *)
fw_crc(packet) == Xor(Xor(packet, packet \div 16), packet \div 256) % 16

(* firmware setup_payload: `let telemetry_bit = 1; // todo temp` *)
fw_setup_payload(data_word) ==
    LET telemetry_bit == 1
        packet == ((data_word * 2) % 65536) + telemetry_bit
    IN  ((packet * 16) % 65536) + fw_crc(packet)

\* commands and powers (in thousandths) handed to setup_payload
PowerVals == {(k * 1000) \div PowerSteps : k \in 0..PowerSteps}
EncCmdVals ==
    {CmdPower(pwr) : pwr \in PowerVals}
        \cup {CmdCommand(c) : c \in {SpinDir1, SpinDir2, SaveSettings,
                                     SpinDirNormal, SpinDirReversed}}

-----------------------------------------------------------------------------
(* State after construction (init of src/main.rs, statics of safety.rs and dshot.rs) *)

armVars  == <<arm_status, has_taken_off, arm_signals_received, disarm_signals_received,
              RECEIVED_INITIAL_DISARM, ARM_COMMANDED_WITHOUT_IDLE>>
histVars == <<arm_run, disarm_run, call_throttle, seen_disarm, seen_disarm_idle,
              nonidle_arm_latched>>
imuVars  == <<imu_pc, imu_isr_loop_i>>
outVars  == <<PAYLOAD, frames_sent, ESC_TELEM>>
mixVars  == <<current_pwr, rotor_duty, control_posits, elevon_posit>>
pidVars  == <<coeffs, pid_state, fw_pid_state, pid_rate>>
apVars   == <<autopilot_status, input_mode, optional_sensors, params, inputs,
              attitudes_commanded, rates_commanded, pid_attitude,
              velocities_commanded, fw_attitudes_commanded, ap_last, ap_seq>>
linkVars == <<link_lost, lost_link_timer, lost_link_pending, system_status,
              link_stats, since_ch_data, since_packet, pilot_ap, link_event>>
\* the state of the handlers that only some specifications run
telemVars == <<PAYLOAD_REC_BB, rotor_rpms, esc_rpm_fault, rec_packet, rec_result>>
encVars  == <<firmware_build, enc_cmd, enc_telem, enc_duties, wire_frame, wire_flip>>
busVars  == <<bus_pc, CH_B_REC_MODE, pin_mode, timer_dir, timer_en, dma_xfer, dma_count,
              dma_tc, isr_branch>>
setupVars == <<setup_pc, setup_i, motors_reversed, frame_delayed, cmd_sent>>
lockVars == <<time_with_high_throttle, time_with_low_throttle, lock_in, high_run>>
ctrlVars == <<ctrl_in, ctrl_out>>
tpaVars == <<tpa_in, tpa_out>>
mixInVars == <<mix_throttles, mix_in>>
storeVars == <<autopilot_commands, ap_store>>
extVars  == <<linkVars, telemVars, encVars, busVars, setupVars, lockVars, ctrlVars, tpaVars, mixInVars, storeVars>>

InitArm ==
    /\ control_channel_data = [arm_status |-> "Disarmed", throttle |-> 0]
    /\ arm_status = "Disarmed"
    /\ has_taken_off = FALSE
    /\ arm_signals_received = 0
    /\ disarm_signals_received = 0
    /\ RECEIVED_INITIAL_DISARM = FALSE
    /\ ARM_COMMANDED_WITHOUT_IDLE = FALSE
    /\ arm_run = 0
    /\ disarm_run = 0
    /\ call_throttle = 0
    /\ seen_disarm = FALSE
    /\ seen_disarm_idle = FALSE
    /\ nonidle_arm_latched = FALSE

InitIsr ==
    /\ update_pending = FALSE
    /\ imu_pc = "idle"
    /\ imu_isr_loop_i = 0

InitOut ==
    /\ PAYLOAD = <<0, 0, 0, 0>>
    /\ frames_sent = 0
    /\ ESC_TELEM = FALSE
    /\ last_output = "none"

\* link_lost: true ("Initialize to not being on the link"); TIM17 is
\* configured and its interrupt enabled, but it is not started
InitLink ==
    /\ link_lost = TRUE
    /\ lost_link_timer = [enabled |-> FALSE, count |-> 0]
    /\ lost_link_pending = FALSE
    /\ system_status = [rf_control_link |-> "Other", rf_control_fault |-> FALSE,
                        gnss_can |-> "Other", magnetometer |-> "Other"]
    /\ link_stats = "stats_a"
    /\ since_ch_data = LostLinkPeriod
    /\ since_packet = LostLinkPeriod
    /\ pilot_ap = AutopilotStatusDefault
    /\ link_event = "none"

\* the static receive buffers are all false; MotorRpm::default()
InitTelem ==
    /\ PAYLOAD_REC_BB = [m \in 1..NUM_MOTORS |-> [i \in 1..REC_BUF_LEN |-> FALSE]]
    /\ rotor_rpms = [aft_right |-> Finite(0), front_right |-> Finite(0),
                     aft_left |-> Finite(0), front_left |-> Finite(0)]
    /\ esc_rpm_fault = FALSE
    /\ rec_packet = 0
    /\ rec_result = Err("NotRun", EscRpm(Finite(0)))

\* the motor timer drives the lines as outputs; no transfer is under way
InitBus ==
    /\ bus_pc = "idle"
    /\ CH_B_REC_MODE = FALSE
    /\ pin_mode = "alt"
    /\ timer_dir = "output"
    /\ timer_en = FALSE
    /\ dma_xfer = "none"
    /\ dma_count = 0
    /\ dma_tc = "none"
    /\ isr_branch = "none"

\* init has returned; the history of setup_motor_dir is not carried
InitSetup ==
    /\ setup_pc = "done"
    /\ setup_i = 0
    /\ motors_reversed = <<FALSE, FALSE, FALSE, FALSE>>
    /\ frame_delayed = TRUE
    /\ cmd_sent = [dir |-> 0, save |-> 0]

\* the accumulators start at zero; the lock has not been called
InitLock ==
    /\ time_with_high_throttle = 0
    /\ time_with_low_throttle = 0
    /\ lock_in = [called |-> FALSE, throttle |-> 0, angle_from_upright |-> 0]
    /\ high_run = 0

(* f32 arithmetic on exact fractions.  [n, d] with d > 0 is the finite      *)
(* value n/d; d = 0 with n # 0 is the infinity of the sign of n; d = 0 with *)
(* n = 0 is NaN.  Every zero is +0.  IEEE 754: x/0 is an infinity for       *)
(* x # 0, 0/0, inf - inf and 0 * inf are NaN, a NaN operand gives NaN, and  *)
(* every ordered comparison with a NaN is false.                            *)

RECURSIVE GCD(_, _)
GCD(a, b) == IF b = 0 THEN a ELSE GCD(b, a % b)
Rat(n, d) ==
    LET g == GCD(Abs(n), Abs(d))
        s == IF d < 0 THEN -1 ELSE 1
    IN  [n |-> s * (n \div g), d |-> s * (d \div g)]
FNaN == [n |-> 0, d |-> 0]
FInf(s) == [n |-> s, d |-> 0]
is_nan(x) == x.d = 0 /\ x.n = 0
is_finite(x) == x.d # 0
FNeg(x) == [x EXCEPT !.n = -@]
FAbs(x) == [x EXCEPT !.n = Abs(@)]
FMul(x, y) ==
    IF is_nan(x) \/ is_nan(y) THEN FNaN
    ELSE IF x.d = 0 \/ y.d = 0
         THEN IF x.n = 0 \/ y.n = 0 THEN FNaN ELSE FInf(Sign(x.n) * Sign(y.n))
    ELSE Rat(x.n * y.n, x.d * y.d)
FDiv(x, y) ==
    IF is_nan(x) \/ is_nan(y) THEN FNaN
    ELSE IF x.d = 0
         THEN IF y.d = 0 THEN FNaN
              ELSE FInf(Sign(x.n) * (IF y.n < 0 THEN -1 ELSE 1))
    ELSE IF y.d = 0 THEN Rat(0, 1)
    ELSE IF y.n = 0
         THEN IF x.n = 0 THEN FNaN ELSE FInf(Sign(x.n))
    ELSE Rat(x.n * y.d, x.d * y.n)
FAdd(x, y) ==
    IF is_nan(x) \/ is_nan(y) THEN FNaN
    ELSE IF x.d = 0 /\ y.d = 0 THEN (IF x.n = y.n THEN x ELSE FNaN)
    ELSE IF x.d = 0 THEN x
    ELSE IF y.d = 0 THEN y
    ELSE Rat(x.n * y.d + y.n * x.d, x.d * y.d)
FSub(x, y) == FAdd(x, FNeg(y))
FLt(x, y) ==
    /\ ~is_nan(x)
    /\ ~is_nan(y)
    /\ IF x.d = 0 /\ y.d = 0 THEN x.n < y.n
       ELSE IF x.d = 0 THEN x.n < 0
       ELSE IF y.d = 0 THEN y.n > 0
       ELSE x.n * y.d < y.n * x.d
FGt(x, y) == FLt(y, x)
\* the square root to two decimal places; NaN for a negative operand
FSqrt(x) ==
    IF is_nan(x) \/ x.n < 0 THEN FNaN
    ELSE IF x.d = 0 THEN x
    ELSE LET v == x.n * x.d * 10000
             r == CHOOSE k \in 0..v : k * k <= v /\ (k + 1) * (k + 1) > v
         IN  Rat(r, x.d * 100)

\* nothing returned yet
CtrlOutNone ==
    [ran |-> FALSE, w_dot_target |-> Rat(0, 1),
     ctrl_effectiveness |-> Rat(0, 1), drag_coeff |-> Rat(0, 1)]

\* the attitude controller has not run; the aircraft is at rest on target
InitCtrl ==
    /\ ctrl_in = [d_theta |-> Rat(0, 1), w_0 |-> Rat(0, 1),
                  w_dot_meas |-> Rat(0, 1), ctrl_cmd_prev |-> Rat(0, 1)]
    /\ ctrl_out = CtrlOutNone

\* no scaler derived yet
TpaOutNone == [ran |-> FALSE, lo |-> Rat(1, 1), hi |-> Rat(1, 1)]

\* the rate loop has not run; both throttles are idle
InitTpa ==
    /\ tpa_in = [lo |-> Rat(0, 1), hi |-> Rat(0, 1)]
    /\ tpa_out = TpaOutNone

\* change_attitude has not been called; the stick is at idle or at full throttle
InitMixIn ==
    /\ mix_throttles = MixThrottleVals
    /\ mix_in = [called |-> FALSE, pitch |-> 0, roll |-> 0, yaw |-> 0, throttle |-> 0]

\* AutopilotCommands::default(); the autopilot step has not run
InitStore ==
    /\ autopilot_commands = <<"default">>
    /\ ap_store = [ran |-> FALSE, stored |-> FALSE, has_taken_off |-> FALSE]

\* PAYLOAD is all zero before the first setup_payload; no frame is on the wire
InitEnc ==
    /\ firmware_build = FALSE
    /\ enc_cmd = [kind |-> "none", v |-> 0]
    /\ enc_telem = FALSE
    /\ enc_duties = [k \in 1..16 |-> 0]
    /\ wire_frame = 0
    /\ wire_flip = -1

InitMix ==
    /\ current_pwr = [p1 |-> 0, p2 |-> 0, p3 |-> 0, p4 |-> 0]
    /\ rotor_duty = <<0, 0, 0, 0>>
    /\ control_posits = [motor |-> 0, elevon_left |-> 0, elevon_right |-> 0]
    /\ elevon_posit = <<0, 0>>

InitPid ==
    /\ coeffs = [k_p |-> 1, k_i |-> 1]
    /\ pid_state = PidStateDefault
    /\ fw_pid_state = PidStateDefault
    /\ pid_rate = PidGroupDefault

InitAp ==
    /\ autopilot_status = AutopilotStatusDefault
    /\ input_mode = "Acro"
    /\ optional_sensors = [gps_connected |-> FALSE, tof_connected |-> FALSE]
    /\ params = ParamsDefault
    /\ inputs = CtrlInputsZero
    /\ attitudes_commanded = CtrlInputsNone
    /\ rates_commanded = CtrlInputsNone
    /\ pid_attitude = PidGroupDefault
    /\ velocities_commanded = CtrlInputsUnset
    /\ fw_attitudes_commanded = CtrlInputsUnset
    /\ ap_last = "none"
    /\ ap_seq = 0

-----------------------------------------------------------------------------
(* Handlers of src/main.rs *)

(* TIM15 update event: pends update_isr *)
TimerTick ==
    /\ ~update_pending
    /\ update_pending' = TRUE
    /\ UNCHANGED <<extVars, fixed_wing, control_channel_data, armVars, histVars, imuVars, outVars,
                   last_output, mixVars, pidVars, apVars>>

(* crsf_isr at the end of a message that handle_packet decodes as          *)
(* ChannelData: *ch_data = data, then the lost-link timer is restarted and  *)
(* the link marked as held.  (The invocation at the start of a message only *)
(* starts the DMA read.)                                                    *)
CrsfIsr ==
    /\ CanRun("crsf_isr")
    /\ \E a \in ControllerArmVals, t \in ThrottleVals :
          control_channel_data' = [arm_status |-> a, throttle |-> t]
    /\ lost_link_timer' = restart_lost_link_timer(lost_link_timer)
    /\ link_lost' = FALSE
    /\ system_status' = [system_status EXCEPT !.rf_control_link = "Pass"]
    /\ since_ch_data' = 0
    /\ since_packet' = 0
    /\ link_event' = IF link_lost /\ link_event = "lost" THEN "reacquired"
                     ELSE IF link_event = "reacquired" THEN "held"
                     ELSE link_event
    /\ UNCHANGED <<storeVars, mixInVars, tpaVars, ctrlVars, lockVars, busVars, setupVars, encVars, telemVars, fixed_wing, armVars, histVars, update_pending, imuVars, outVars,
                   last_output, mixVars, pidVars, apVars,
                   lost_link_pending, link_stats, pilot_ap>>

(* crsf_isr at the end of a message that handle_packet decodes as LinkStats *)
CrsfIsrLinkStats ==
    /\ CanRun("crsf_isr")
    /\ \E stats \in LinkStatsVals : link_stats' = stats
    /\ since_packet' = 0
    /\ UNCHANGED <<storeVars, mixInVars, tpaVars, ctrlVars, lockVars, busVars, setupVars, encVars, telemVars, fixed_wing, control_channel_data, armVars, histVars, update_pending,
                   imuVars, outVars, last_output, mixVars, pidVars, apVars,
                   link_lost, lost_link_timer, lost_link_pending, system_status,
                   since_ch_data, pilot_ap, link_event>>

(* crsf_isr at the end of a message that handle_packet does not decode,    *)
(* with or without raising rx_fault                                         *)
CrsfIsrNoPacket ==
    /\ CanRun("crsf_isr")
    /\ \E rx_fault \in BOOLEAN :
          system_status' = IF rx_fault
                           THEN [system_status EXCEPT !.rf_control_fault = TRUE]
                           ELSE system_status
    /\ UNCHANGED <<storeVars, mixInVars, tpaVars, ctrlVars, lockVars, busVars, setupVars, encVars, telemVars, fixed_wing, control_channel_data, armVars, histVars, update_pending,
                   imuVars, outVars, last_output, mixVars, pidVars, apVars,
                   link_lost, lost_link_timer, lost_link_pending, link_stats,
                   since_ch_data, since_packet, pilot_ap, link_event>>

(* One tick of time: TIM17 counts while enabled; at the end of its period  *)
(* it stops (one-pulse mode) and raises its update interrupt                *)
LostLinkTimerTick ==
    /\ IF lost_link_timer.enabled
       THEN IF lost_link_timer.count + 1 >= LostLinkPeriod
            THEN /\ lost_link_timer' = [enabled |-> FALSE, count |-> 0]
                 /\ lost_link_pending' = TRUE
            ELSE /\ lost_link_timer' = [lost_link_timer EXCEPT !.count = @ + 1]
                 /\ UNCHANGED lost_link_pending
       ELSE UNCHANGED <<lost_link_timer, lost_link_pending>>
    /\ since_ch_data' = Min(since_ch_data + 1, LostLinkPeriod)
    /\ since_packet' = Min(since_packet + 1, LostLinkPeriod)
    /\ UNCHANGED <<storeVars, mixInVars, tpaVars, ctrlVars, lockVars, busVars, setupVars, encVars, telemVars, fixed_wing, control_channel_data, armVars, histVars, update_pending,
                   imuVars, outVars, last_output, mixVars, pidVars, apVars,
                   link_lost, system_status, link_stats, pilot_ap, link_event>>

(* lost_link_isr *)
LostLinkIsr ==
    /\ lost_link_pending
    /\ ~update_pending
    /\ CanRun("lost_link_isr")
    /\ lost_link_pending' = FALSE
    /\ lost_link_timer' = stop_lost_link_timer(lost_link_timer)
    /\ link_lost' = TRUE
    /\ autopilot_status' = excecute_link_lost(system_status, autopilot_status, params,
                                              base_point)
    /\ pilot_ap' = autopilot_status
    /\ link_event' = "lost"
    /\ UNCHANGED <<storeVars, mixInVars, tpaVars, ctrlVars, lockVars, busVars, setupVars, encVars, telemVars, fixed_wing, control_channel_data, armVars, histVars, update_pending,
                   imuVars, outVars, last_output, mixVars, pidVars,
                   input_mode, optional_sensors, params, inputs,
                   attitudes_commanded, rates_commanded, pid_attitude,
                   velocities_commanded, fw_attitudes_commanded, ap_last, ap_seq,
                   system_status, link_stats, since_ch_data, since_packet>>

(* update_isr: the arming step it performs on every tick *)
UpdateIsr ==
    /\ update_pending
    /\ CanRun("update_isr")
    /\ LET sig == control_channel_data.arm_status
           thr == control_channel_data.throttle
           r   == handle_arm_status(ArmState, sig, thr)
           run == IF sig = MOTORS_ARMED THEN Min(arm_run + 1, MaxRun) ELSE 0
       IN  /\ arm_signals_received' = r.arm_signals_received
           /\ disarm_signals_received' = r.disarm_signals_received
           /\ arm_status' = r.arm_status
           /\ has_taken_off' = r.has_taken_off
           /\ RECEIVED_INITIAL_DISARM' = r.RECEIVED_INITIAL_DISARM
           /\ ARM_COMMANDED_WITHOUT_IDLE' = r.ARM_COMMANDED_WITHOUT_IDLE
           /\ arm_run' = run
           /\ disarm_run' = IF sig # MOTORS_ARMED THEN Min(disarm_run + 1, MaxRun) ELSE 0
           /\ call_throttle' = thr
           /\ seen_disarm' = (seen_disarm \/ sig # MOTORS_ARMED)
           /\ seen_disarm_idle' =
                 (seen_disarm_idle \/ (sig # MOTORS_ARMED /\ thr < THROTTLE_MAX_TO_ARM))
           /\ nonidle_arm_latched' =
                 IF sig # MOTORS_ARMED THEN FALSE
                 ELSE IF /\ arm_status = "Disarmed"
                         /\ run = NUM_ARM_DISARM_SIGNALS_REQUIRED
                         /\ thr >= THROTTLE_MAX_TO_ARM
                      THEN TRUE
                      ELSE nonidle_arm_latched
    /\ update_pending' = FALSE
    /\ UNCHANGED <<extVars, fixed_wing, control_channel_data, imuVars, outVars,
                   last_output, mixVars, pidVars, apVars>>

(* imu_tc_isr entry: count the call, skip every other one, else take the locks *)
ImuTcIsrStart ==
    /\ imu_pc = "idle"
    /\ imu_isr_loop_i' = (imu_isr_loop_i + 1) % 2
    /\ imu_pc' = IF imu_isr_loop_i' % 2 = 0 THEN "idle" ELSE "locked"
    /\ UNCHANGED <<extVars, fixed_wing, control_channel_data, armVars, histVars,
                   update_pending, outVars,
                   last_output, mixVars, pidVars, apVars>>

(* imu_tc_isr: `if state_volatile.arm_status == ArmStatus::Armed` *)
ImuTcIsrReadArm ==
    /\ imu_pc = "locked"
    /\ imu_pc' = IF arm_status = "Armed" THEN "set_power" ELSE "stop_all"
    /\ UNCHANGED <<extVars, fixed_wing, control_channel_data, armVars, histVars,
                   update_pending, imu_isr_loop_i, outVars,
                   last_output, mixVars, pidVars, apVars>>

(* imu_tc_isr: the branch taken encodes and sends the burst, then returns *)
ImuTcIsrEncode ==
    /\ imu_pc \in {"set_power", "stop_all"}
    /\ LET p == Max(control_channel_data.throttle, 25)
       IN  PAYLOAD' = IF imu_pc = "set_power" THEN set_power(p, p, p, p) ELSE stop_all
    /\ frames_sent' = (frames_sent + 1) % FrameWrap
    /\ last_output' = "imu_tc_isr"
    /\ imu_pc' = "idle"
    /\ UNCHANGED <<extVars, fixed_wing, control_channel_data, armVars, histVars,
                   update_pending, imu_isr_loop_i, ESC_TELEM,
                   mixVars, pidVars, apVars>>

(* One run of calc_pid_error of src/pid.rs on pid_state *)
CalcPidError ==
    /\ \E set_pt \in SetPtVals, measurement \in MeasurementVals, dt \in DtVals :
          pid_state' = calc_pid_error(set_pt, measurement, pid_state,
                                      coeffs.k_p, coeffs.k_i, dt)
    /\ UNCHANGED <<extVars, fixed_wing, control_channel_data, armVars, histVars, update_pending,
                   imuVars, outVars, last_output, mixVars, coeffs, fw_pid_state,
                   pid_rate, apVars>>

(* One run of calc_pid_error of firmware/pid.rs on fw_pid_state *)
FwCalcPidError ==
    /\ \E set_pt \in FwSetPtVals, dt \in DtVals :
          fw_pid_state' = fw_calc_pid_error(set_pt, 0, fw_pid_state,
                                            coeffs.k_p, coeffs.k_i, dt)
    /\ UNCHANGED <<extVars, fixed_wing, control_channel_data, armVars, histVars, update_pending,
                   imuVars, outVars, last_output, mixVars, coeffs, pid_state,
                   pid_rate, apVars>>

(* run_rate_quad of src/pid.rs with the commanded rates passed in (input    *)
(* mode other than Acro): the rate PIDs of the three axes.  The mixer call  *)
(* that ends it, flight_ctrls::quad::apply_controls, is not among the       *)
(* sources and is not modelled.                                             *)
RunRateQuad ==
    /\ \E rc \in RatesCommandedVals :
          pid_rate' = run_rate_quad(pid_rate, rc, params, coeffs, 1)
    /\ UNCHANGED <<extVars, fixed_wing, control_channel_data, armVars, histVars, update_pending,
                   imuVars, outVars, last_output, mixVars, coeffs, pid_state,
                   fw_pid_state, apVars>>

(* firmware: change_attitude, ending in RotorPower::set (clamp, then the  *)
(* power of each rotor handed to set_power)                                 *)
ChangeAttitude ==
    /\ \E pitch \in EffortVals, roll \in EffortVals, yaw \in EffortVals,
          throttle \in mix_throttles :
          LET pwr == RotorPower_clamp(change_attitude(pitch, roll, yaw, throttle,
                                                      current_pwr))
          IN  /\ current_pwr' = pwr
              /\ rotor_duty' = <<pwr.p1, pwr.p2, pwr.p3, pwr.p4>>
              /\ mix_in' = [called |-> TRUE, pitch |-> pitch, roll |-> roll,
                            yaw |-> yaw, throttle |-> throttle]
    /\ frames_sent' = (frames_sent + 1) % FrameWrap
    /\ last_output' = "RotorPower::set"
    /\ UNCHANGED <<storeVars, linkVars, telemVars, encVars, busVars, setupVars, lockVars,
                   ctrlVars, tpaVars, mix_throttles, fixed_wing, control_channel_data, armVars, histVars, update_pending,
                   imuVars, PAYLOAD, ESC_TELEM, control_posits, elevon_posit,
                   pidVars, apVars>>

(* flying wing: apply_controls, ending in ControlPositions::set *)
ApplyControls ==
    /\ arm_status \in {"Armed", "Disarmed"}
    /\ \E pitch_delta \in WingDeltaVals, roll_delta \in WingDeltaVals,
          throttle \in MixThrottleVals :
          LET posits == apply_controls(pitch_delta, roll_delta, throttle)
          IN  /\ control_posits' = posits
              /\ IF arm_status = "Armed"
                 THEN /\ PAYLOAD' = set_power(posits.motor, 0, 0, 0)
                      /\ elevon_posit' = <<posits.elevon_left, posits.elevon_right>>
                 ELSE /\ PAYLOAD' = stop_all
                      /\ elevon_posit' = <<0, 0>>
    /\ frames_sent' = (frames_sent + 1) % FrameWrap
    /\ last_output' = "ControlPositions::set"
    /\ UNCHANGED <<extVars, fixed_wing, control_channel_data, armVars, histVars, update_pending,
                   imuVars, ESC_TELEM, current_pwr, rotor_duty, pidVars, apVars>>

(* quad: one outer-loop run of AutopilotStatus::apply *)
ApplyQuad ==
    /\ ~fixed_wing
    /\ LET r == apply_quad(autopilot_status, params, attitudes_commanded,
                           rates_commanded, pid_attitude, coeffs, optional_sensors)
       IN  /\ attitudes_commanded' = r.attitudes_commanded
           /\ rates_commanded' = r.rates_commanded
           /\ pid_attitude' = r.pid
    /\ ap_last' = "apply_quad"
    /\ ap_seq' = (ap_seq + 1) % FrameWrap
    /\ UNCHANGED <<extVars, fixed_wing, control_channel_data, armVars, histVars, update_pending,
                   imuVars, outVars, last_output, mixVars, pidVars,
                   autopilot_status, input_mode, optional_sensors, params, inputs,
                   velocities_commanded, fw_attitudes_commanded>>

(* fixed wing: one outer-loop run of AutopilotStatus::apply *)
ApplyFixedWing ==
    /\ fixed_wing
    /\ LET r == apply_fixed_wing(autopilot_status, params, attitudes_commanded,
                                 pid_attitude, coeffs, optional_sensors)
       IN  /\ \/ autopilot_status.direct_to_point.some
              \/ Abs(unwrap_or(r.attitudes_commanded.pitch, 0)) <= MaxSetpoint
           /\ attitudes_commanded' = r.attitudes_commanded
           /\ pid_attitude' = r.pid
    /\ ap_last' = "apply_fixed_wing"
    /\ ap_seq' = (ap_seq + 1) % FrameWrap
    /\ UNCHANGED <<extVars, fixed_wing, control_channel_data, armVars, histVars, update_pending,
                   imuVars, outVars, last_output, mixVars, pidVars,
                   autopilot_status, input_mode, optional_sensors, params, inputs,
                   rates_commanded, velocities_commanded, fw_attitudes_commanded>>

(* src/pid.rs run_velocity: the commanded velocities it settles on; the    *)
(* velocity PIDs that follow read them and are not modelled                 *)
RunVelocity ==
    /\ velocities_commanded' = run_velocity(autopilot_status, params, velocities_commanded)
    /\ ap_last' = "run_velocity"
    /\ ap_seq' = (ap_seq + 1) % FrameWrap
    /\ UNCHANGED <<extVars, fixed_wing, control_channel_data, armVars, histVars, update_pending,
                   imuVars, outVars, last_output, mixVars, pidVars,
                   autopilot_status, input_mode, optional_sensors, params, inputs,
                   attitudes_commanded, rates_commanded, pid_attitude,
                   fw_attitudes_commanded>>

(* firmware/pid.rs run_attitude: the commanded attitudes it settles on; the *)
(* attitude PIDs that follow read them and are not modelled                 *)
RunAttitude ==
    /\ fw_attitudes_commanded' =
          run_attitude(autopilot_status, params, inputs, input_mode,
                       fw_attitudes_commanded)
    /\ ap_last' = "run_attitude"
    /\ ap_seq' = (ap_seq + 1) % FrameWrap
    /\ UNCHANGED <<extVars, fixed_wing, control_channel_data, armVars, histVars, update_pending,
                   imuVars, outVars, last_output, mixVars, pidVars,
                   autopilot_status, input_mode, optional_sensors, params, inputs,
                   attitudes_commanded, rates_commanded, pid_attitude,
                   velocities_commanded>>

(* the pilot moves the pitch stick *)
StickInput ==
    /\ \E pitch \in StickVals : inputs' = [inputs EXCEPT !.pitch = pitch]
    /\ UNCHANGED <<extVars, fixed_wing, control_channel_data, armVars, histVars, update_pending,
                   imuVars, outVars, last_output, mixVars, pidVars,
                   autopilot_status, input_mode, optional_sensors, params,
                   attitudes_commanded, rates_commanded, pid_attitude,
                   velocities_commanded, fw_attitudes_commanded, ap_last, ap_seq>>

(* the reception of one motor line's return frame completes *)
ReceiveFrame ==
    /\ \E m \in 1..NUM_MOTORS, frame \in ReturnFrameVals :
          PAYLOAD_REC_BB' = [PAYLOAD_REC_BB EXCEPT ![m] = frame]
    /\ UNCHANGED <<storeVars, mixInVars, tpaVars, ctrlVars, lockVars, busVars, setupVars, encVars, linkVars, fixed_wing, control_channel_data, armVars, histVars,
                   update_pending, imuVars, outVars, last_output, mixVars, pidVars,
                   apVars, rotor_rpms, esc_rpm_fault, rec_packet, rec_result>>

(* update_rpms *)
UpdateRpms ==
    /\ LET r == update_rpms(rotor_rpms, esc_rpm_fault, PAYLOAD_REC_BB)
       IN  /\ rotor_rpms' = r.rpms
           /\ esc_rpm_fault' = r.fault
    /\ UNCHANGED <<storeVars, mixInVars, tpaVars, ctrlVars, lockVars, busVars, setupVars, encVars, linkVars, fixed_wing, control_channel_data, armVars, histVars,
                   update_pending, imuVars, outVars, last_output, mixVars, pidVars,
                   apVars, PAYLOAD_REC_BB, rec_packet, rec_result>>

(* One run of rpm_from_data on a recovered packet *)
RpmFromData ==
    /\ \E packet \in RecPacketVals :
          /\ rec_packet' = packet
          /\ rec_result' = rpm_from_data(packet)
    /\ UNCHANGED <<storeVars, mixInVars, tpaVars, ctrlVars, lockVars, busVars, setupVars, encVars, linkVars, fixed_wing, control_channel_data, armVars, histVars,
                   update_pending, imuVars, outVars, last_output, mixVars, pidVars,
                   apVars, PAYLOAD_REC_BB, rotor_rpms, esc_rpm_fault>>

(* setup_payload for one motor, of src/ or of firmware/, and the burst that *)
(* carries the frame to the ESC                                             *)
SetupPayload ==
    /\ \E cmd \in EncCmdVals :
          LET frame == IF firmware_build
                       THEN fw_setup_payload(data_word_of(cmd))
                       ELSE setup_payload(data_word_of(cmd), ESC_TELEM)
              high  == IF firmware_build THEN fw_DUTY_HIGH ELSE DUTY_HIGH
              low   == IF firmware_build THEN fw_DUTY_LOW ELSE DUTY_LOW
          IN  /\ enc_cmd' = cmd
              /\ enc_telem' = (firmware_build \/ ESC_TELEM)
              /\ enc_duties' = payload_duties(frame, high, low)
              /\ wire_frame' = frame_of_duties(enc_duties', 16, high)
    /\ wire_flip' = -1
    /\ UNCHANGED <<storeVars, mixInVars, tpaVars, ctrlVars, lockVars, busVars, setupVars, linkVars, telemVars, fixed_wing, control_channel_data, armVars,
                   histVars, update_pending, imuVars, outVars, last_output, mixVars,
                   pidVars, apVars, firmware_build>>

(* one bit of the frame on the wire is flipped by noise *)
FlipBit ==
    /\ enc_cmd.kind # "none"
    /\ wire_flip = -1
    /\ \E i \in 0..15 :
          /\ wire_frame' = Xor(wire_frame, 2 ^ i)
          /\ wire_flip' = i
    /\ UNCHANGED <<storeVars, mixInVars, tpaVars, ctrlVars, lockVars, busVars, setupVars, linkVars, telemVars, fixed_wing, control_channel_data, armVars,
                   histVars, update_pending, imuVars, outVars, last_output, mixVars,
                   pidVars, apVars, firmware_build, enc_cmd, enc_telem, enc_duties>>

(* setup_motor_dir: `ESC_TELEM = true` before the commands, `= false` after *)
SetEscTelem ==
    /\ ESC_TELEM' = ~ESC_TELEM
    /\ UNCHANGED <<extVars, fixed_wing, control_channel_data, armVars, histVars,
                   update_pending, imuVars, PAYLOAD, frames_sent, last_output, mixVars,
                   pidVars, apVars>>

-----------------------------------------------------------------------------
(* Bidirectional DSHOT: one burst and the telemetry reception after it.     *)
(* src/protocols/dshot.rs send_payload and receive_payload, and             *)
(* dshot_isr_r34 of src/main.rs, the transfer-complete interrupt of the     *)
(* motor DMA channel (DMA1_CH4).                                            *)

\* powers of the bursts that are sent, in thousandths
BusPowerVals == {0, 500}

\* items of a transfer: a burst is the 16 bit slots of a frame and 2 slots of
\* padding, a reception fills the REC_BUF_LEN entries of the receive buffers
XferLen(kind) == IF kind = "write" THEN 18 ELSE REC_BUF_LEN

(* send_payload: the motor pins are put into alternate-function mode, the   *)
(* timer's output, before write_dma_burst starts the burst                  *)
send_payload(pins) == "alt"

(* receive_payload: the motor pins are put into input mode *)
receive_payload(pins) == "input"

\* the phase of the transmission cycle the bus is in
BusPhase ==
    IF bus_pc = "encoded" THEN "Encoding"
    ELSE IF dma_xfer = "write" THEN "Transmitting"
    ELSE IF dma_xfer = "read" THEN "Receiving"
    ELSE "Idle"

(* set_power up to its send_payload call: the four setup_payload calls.     *)
(* The caller holds the motor_timers lock from here to the end of           *)
(* send_payload.                                                            *)
SetPowerEncode ==
    /\ bus_pc = "idle"
    /\ \E p \in BusPowerVals : PAYLOAD' = set_power(p, p, p, p)
    /\ bus_pc' = "encoded"
    /\ UNCHANGED <<storeVars, mixInVars, tpaVars, ctrlVars, lockVars, linkVars, telemVars, encVars, setupVars, fixed_wing,
                   control_channel_data, armVars, histVars, update_pending, imuVars,
                   frames_sent, ESC_TELEM, last_output, mixVars, pidVars, apVars,
                   CH_B_REC_MODE, pin_mode, timer_dir, timer_en, dma_xfer, dma_count,
                   dma_tc, isr_branch>>

(* send_payload: pins to the timer's output, then write_dma_burst, which    *)
(* sets the channel up anew (a transfer under way on it ends there) and     *)
(* enables the timer.  CH_B_REC_MODE is not written.                        *)
SendPayload ==
    /\ bus_pc = "encoded"
    /\ pin_mode' = send_payload(pin_mode)
    /\ dma_xfer' = "write"
    /\ dma_count' = 0
    /\ timer_en' = TRUE
    /\ frames_sent' = (frames_sent + 1) % FrameWrap
    /\ last_output' = "send_payload"
    /\ bus_pc' = "idle"
    /\ UNCHANGED <<storeVars, mixInVars, tpaVars, ctrlVars, lockVars, linkVars, telemVars, encVars, setupVars, fixed_wing,
                   control_channel_data, armVars, histVars, update_pending, imuVars,
                   PAYLOAD, ESC_TELEM, mixVars, pidVars, apVars,
                   CH_B_REC_MODE, timer_dir, dma_tc, isr_branch>>

(* The DMA channel moves one item per timer event; after the last one it    *)
(* raises the transfer-complete interrupt.  A reception advances only as    *)
(* the ESC answers.  A pended interrupt is served before a burst can end.   *)
DmaTransfer ==
    /\ dma_xfer # "none"
    /\ timer_en
    /\ IF dma_count + 1 < XferLen(dma_xfer)
       THEN /\ dma_count' = dma_count + 1
            /\ UNCHANGED <<dma_xfer, dma_tc>>
       ELSE /\ dma_tc = "none"
            /\ dma_count' = 0
            /\ dma_tc' = dma_xfer
            /\ dma_xfer' = "none"
    /\ UNCHANGED <<storeVars, mixInVars, tpaVars, ctrlVars, lockVars, linkVars, telemVars, encVars, setupVars, fixed_wing,
                   control_channel_data, armVars, histVars, update_pending, imuVars,
                   outVars, last_output, mixVars, pidVars, apVars,
                   bus_pc, CH_B_REC_MODE, pin_mode, timer_dir, timer_en, isr_branch>>

(* dshot_isr_r34: clear the flag, stop TIM3, then by CH_B_REC_MODE either   *)
(* set_to_output, or set_to_input and receive_payload.  It shares           *)
(* motor_timers with the sender, so it waits while the sender holds it.     *)
DshotIsrR34 ==
    /\ dma_tc # "none"
    /\ bus_pc = "idle" \/ TaskPriority.dshot_isr_r34 > Ceiling("motor_timers")
    /\ dma_tc' = "none"
    /\ IF ~BIDIR_EN
       THEN /\ timer_en' = FALSE
            /\ isr_branch' = "none"
            /\ UNCHANGED <<CH_B_REC_MODE, pin_mode, timer_dir, dma_xfer, dma_count>>
       ELSE IF CH_B_REC_MODE
       THEN /\ timer_en' = FALSE
            /\ timer_dir' = "output"
            /\ CH_B_REC_MODE' = FALSE
            /\ isr_branch' = "to_output"
            /\ UNCHANGED <<pin_mode, dma_xfer, dma_count>>
       ELSE /\ timer_dir' = "input"
            /\ pin_mode' = receive_payload(pin_mode)
            /\ dma_xfer' = "read"
            /\ dma_count' = 0
            /\ timer_en' = TRUE
            /\ CH_B_REC_MODE' = TRUE
            /\ isr_branch' = "to_input"
    /\ UNCHANGED <<storeVars, mixInVars, tpaVars, ctrlVars, lockVars, linkVars, telemVars, encVars, setupVars, fixed_wing,
                   control_channel_data, armVars, histVars, update_pending, imuVars,
                   outVars, last_output, mixVars, pidVars, apVars, bus_pc>>

-----------------------------------------------------------------------------
(* setup_motor_dir, called by init before any task runs: zero throttle,     *)
(* then the spin direction commands and, in src/, the save command, each    *)
(* burst followed by a blocking delay.                                      *)

\* motor reversal settings of the user configuration that are tried
MotorsReversedVals == {<<FALSE, FALSE, FALSE, FALSE>>, <<TRUE, FALSE, FALSE, TRUE>>}

\* how often the build's setup_motor_dir sends a command
RepeatCount(fw) == IF fw THEN fw_REPEAT_COMMAND_COUNT ELSE REPEAT_COMMAND_COUNT

\* setup_motor_dir_next with the bug "each command is sent once"
setup_motor_dir_next_Once(fw, pc, i) ==
    IF pc = "stop_all_delay"
    THEN IF i + 1 < ZERO_THROTTLE_COUNT
         THEN [pc |-> "stop_all", i |-> i + 1]
         ELSE [pc |-> "telem_on", i |-> 0]
    ELSE IF pc = "spin_dir_delay"
    THEN IF fw THEN [pc |-> "done", i |-> 0] ELSE [pc |-> "save", i |-> 0]
    ELSE [pc |-> "pause_after_save", i |-> 0]

(* setup_motor_dir: where its loops go after the delay that ends iteration  *)
(* i.  firmware/ has the spin direction loop only.                          *)
setup_motor_dir_next(fw, pc, i) ==
    IF pc = "stop_all_delay"
    THEN IF i + 1 < ZERO_THROTTLE_COUNT
         THEN [pc |-> "stop_all", i |-> i + 1]
         ELSE [pc |-> "telem_on", i |-> 0]
    ELSE IF pc = "spin_dir_delay"
    THEN IF i + 1 < RepeatCount(fw)
         THEN [pc |-> "spin_dir", i |-> i + 1]
         ELSE IF fw THEN [pc |-> "done", i |-> 0] ELSE [pc |-> "save", i |-> 0]
    ELSE IF i + 1 < REPEAT_COMMAND_COUNT
         THEN [pc |-> "save", i |-> i + 1]
         ELSE [pc |-> "pause_after_save", i |-> 0]

\* the spin direction command of a motor
spin_dir_cmd(fw, reversed) ==
    IF fw THEN (IF reversed THEN SpinDirReversed ELSE SpinDirNormal)
    ELSE (IF reversed THEN SpinDir2 ELSE SpinDir1)

\* the frame the build's setup_payload makes of a command
command_frame(fw, c) ==
    IF fw THEN fw_setup_payload(c) ELSE setup_payload(c, ESC_TELEM)

\* the data words of the burst last started
EmittedDataWords ==
    IF last_output = "RotorPower::set"
    THEN {PowerDataWord(rotor_duty[m]) : m \in 1..NUM_MOTORS}
    ELSE {DataWord(PAYLOAD[m]) : m \in 1..NUM_MOTORS}

\* data words below 48 are commands
IsCommandWord(w) == w < 48

(* setup_motor_dir, first loop: stop_all *)
SetupStopAll ==
    /\ setup_pc = "stop_all"
    /\ PAYLOAD' = stop_all
    /\ frames_sent' = (frames_sent + 1) % FrameWrap
    /\ last_output' = "setup_motor_dir"
    /\ frame_delayed' = FALSE
    /\ setup_pc' = "stop_all_delay"
    /\ UNCHANGED <<storeVars, mixInVars, tpaVars, ctrlVars, lockVars, linkVars, telemVars, encVars, busVars, fixed_wing,
                   control_channel_data, armVars, histVars, update_pending, imuVars,
                   ESC_TELEM, mixVars, pidVars, apVars,
                   setup_i, motors_reversed, cmd_sent>>

(* setup_motor_dir: the delay_ms that ends an iteration of a loop *)
SetupDelay ==
    /\ setup_pc \in {"stop_all_delay", "spin_dir_delay", "save_delay"}
    /\ frame_delayed' = TRUE
    /\ LET n == setup_motor_dir_next(firmware_build, setup_pc, setup_i)
       IN  /\ setup_pc' = n.pc
           /\ setup_i' = n.i
    /\ UNCHANGED <<storeVars, mixInVars, tpaVars, ctrlVars, lockVars, linkVars, telemVars, encVars, busVars, fixed_wing,
                   control_channel_data, armVars, histVars, update_pending, imuVars,
                   outVars, last_output, mixVars, pidVars, apVars,
                   motors_reversed, cmd_sent>>

(* setup_motor_dir: `ESC_TELEM = true`, then a delay *)
SetupTelemOn ==
    /\ setup_pc = "telem_on"
    /\ ESC_TELEM' = TRUE
    /\ frame_delayed' = TRUE
    /\ setup_pc' = "spin_dir"
    /\ UNCHANGED <<storeVars, mixInVars, tpaVars, ctrlVars, lockVars, linkVars, telemVars, encVars, busVars, fixed_wing,
                   control_channel_data, armVars, histVars, update_pending, imuVars,
                   PAYLOAD, frames_sent, last_output, mixVars, pidVars, apVars,
                   setup_i, motors_reversed, cmd_sent>>

(* setup_motor_dir: one burst of spin direction commands *)
SetupSpinDir ==
    /\ setup_pc = "spin_dir"
    /\ PAYLOAD' = [m \in 1..NUM_MOTORS |->
                      command_frame(firmware_build,
                                    spin_dir_cmd(firmware_build, motors_reversed[m]))]
    /\ frames_sent' = (frames_sent + 1) % FrameWrap
    /\ last_output' = "setup_motor_dir"
    /\ frame_delayed' = FALSE
    /\ cmd_sent' = [cmd_sent EXCEPT !.dir = @ + 1]
    /\ setup_pc' = "spin_dir_delay"
    /\ UNCHANGED <<storeVars, mixInVars, tpaVars, ctrlVars, lockVars, linkVars, telemVars, encVars, busVars, fixed_wing,
                   control_channel_data, armVars, histVars, update_pending, imuVars,
                   ESC_TELEM, mixVars, pidVars, apVars,
                   setup_i, motors_reversed>>

(* setup_motor_dir: one burst of SaveSettings commands *)
SetupSave ==
    /\ setup_pc = "save"
    /\ PAYLOAD' = [m \in 1..NUM_MOTORS |-> command_frame(firmware_build, SaveSettings)]
    /\ frames_sent' = (frames_sent + 1) % FrameWrap
    /\ last_output' = "setup_motor_dir"
    /\ frame_delayed' = FALSE
    /\ cmd_sent' = [cmd_sent EXCEPT !.save = @ + 1]
    /\ setup_pc' = "save_delay"
    /\ UNCHANGED <<storeVars, mixInVars, tpaVars, ctrlVars, lockVars, linkVars, telemVars, encVars, busVars, fixed_wing,
                   control_channel_data, armVars, histVars, update_pending, imuVars,
                   ESC_TELEM, mixVars, pidVars, apVars,
                   setup_i, motors_reversed>>

(* setup_motor_dir: the pause after the save, `ESC_TELEM = false`, return *)
SetupFinish ==
    /\ setup_pc = "pause_after_save"
    /\ ESC_TELEM' = FALSE
    /\ frame_delayed' = TRUE
    /\ setup_pc' = "done"
    /\ UNCHANGED <<storeVars, mixInVars, tpaVars, ctrlVars, lockVars, linkVars, telemVars, encVars, busVars, fixed_wing,
                   control_channel_data, armVars, histVars, update_pending, imuVars,
                   PAYLOAD, frames_sent, last_output, mixVars, pidVars, apVars,
                   setup_i, motors_reversed, cmd_sent>>

-----------------------------------------------------------------------------
(* Takeoff attitude lock: src/safety.rs handle_takeoff_attitude_lock, called *)
(* by update_isr while has_taken_off is false.  Times are in model ticks,    *)
(* one call per tick (dt = 1 tick).                                          *)

\* throttle values of the calls, in thousandths: idle, between the two
\* thresholds, and above the takeoff threshold
LockThrottleVals == {0, 100, 300}
\* angle from upright of the calls, in milliradians
LockAngleVals == {0, 500}

\* the two triggering conditions
HighThrottleCond(arm, throttle) ==
    arm = MOTORS_ARMED /\ throttle >= TAKEOFF_POWER_THRESH
IdleLevelCond(arm, throttle, angle_from_upright) ==
    /\ arm = MOTORS_ARMED
    /\ throttle <= IDLE_POWER_THRESH
    /\ angle_from_upright < UPRIGHT_THRESH

(* handle_takeoff_attitude_lock on s = [high, low, has_taken_off], the two  *)
(* accumulators and the flag it is handed by reference                      *)
handle_takeoff_attitude_lock(s, arm, throttle, angle_from_upright, dt) ==
    IF HighThrottleCond(arm, throttle)
    THEN IF s.high >= TAKEOFF_POWER_TIME * TicksPerSecond
         THEN [s EXCEPT !.has_taken_off = TRUE, !.high = 0]
         ELSE [s EXCEPT !.high = @ + dt]
    ELSE IF IdleLevelCond(arm, throttle, angle_from_upright)
    THEN IF s.low >= IDLE_POWER_TIME * TicksPerSecond
         THEN [s EXCEPT !.has_taken_off = FALSE, !.low = 0]
         ELSE [s EXCEPT !.low = @ + dt]
    ELSE [s EXCEPT !.high = 0, !.low = 0]

(* update_isr: `if !state_volatile.has_taken_off { handle_takeoff_attitude_lock(..) }` *)
TakeoffAttitudeLock ==
    /\ ~has_taken_off
    /\ \E throttle \in LockThrottleVals, angle \in LockAngleVals :
          LET r == handle_takeoff_attitude_lock(
                       [high |-> time_with_high_throttle,
                        low |-> time_with_low_throttle,
                        has_taken_off |-> has_taken_off],
                       arm_status, throttle, angle, 1)
          IN  /\ time_with_high_throttle' = r.high
              /\ time_with_low_throttle' = r.low
              /\ has_taken_off' = r.has_taken_off
              /\ lock_in' = [called |-> TRUE, throttle |-> throttle,
                             angle_from_upright |-> angle]
              /\ high_run' = IF HighThrottleCond(arm_status, throttle)
                             THEN Min(high_run + 1, MaxRun) ELSE 0
    /\ UNCHANGED <<storeVars, mixInVars, tpaVars, ctrlVars, linkVars, telemVars, encVars, busVars, setupVars, fixed_wing,
                   control_channel_data, arm_status, arm_signals_received,
                   disarm_signals_received, RECEIVED_INITIAL_DISARM,
                   ARM_COMMANDED_WITHOUT_IDLE, histVars, update_pending, imuVars,
                   outVars, last_output, mixVars, pidVars, apVars>>

-----------------------------------------------------------------------------
(* The attitude controller's correction formulas,                          *)
(* src/flight_ctrls/ctrl_logic.rs                                           *)

\* find_ctrl_setting: `const EPS: f32 = 0.000001`
EPS == Rat(1, 1000000)

\* impl Default for CtrlCoeffs, quad: ttc_per_dθ 0.3, max_ttc_per_dθ 0.5
CtrlCoeffsDefault ==
    [ttc_per_d_theta |-> Rat(3, 10), max_ttc_per_d_theta |-> Rat(1, 2)]

\* -1. / ω_meas * (ω_dot_meas - ω_dot_commanded)
calc_drag_coeff(w_meas, w_dot_meas, w_dot_commanded) ==
    FMul(FDiv(Rat(-1, 1), w_meas), FSub(w_dot_meas, w_dot_commanded))

\* ttc = ttc_per_dθ * |dθ|;  ω_dot_0 = -(6 dθ + 4 ttc ω) / ttc^2
w_dot_from_ttc(d_theta, w, ttc_per_d_theta) ==
    LET ttc == FMul(ttc_per_d_theta, FAbs(d_theta))
    IN  FDiv(FNeg(FAdd(FMul(Rat(6, 1), d_theta), FMul(FMul(Rat(4, 1), ttc), w))),
             FMul(ttc, ttc))

\* find_ctrl_setting's `t`: the total time of the correction, or None when
\* the constant-jerk equation has no real solution
correction_time(d_theta, w_0, w_dot_meas) ==
    IF FLt(FAbs(w_dot_meas), EPS)
    THEN Some(FDiv(FMul(Rat(3, 1), d_theta), FMul(Rat(2, 1), w_0)))
    ELSE LET inner == FSub(FMul(Rat(4, 1), FMul(w_0, w_0)),
                           FMul(FMul(Rat(6, 1), w_dot_meas), d_theta))
         IN  IF FLt(inner, Rat(0, 1))
             THEN None
             ELSE LET t_a == FDiv(FNeg(FAdd(FSqrt(inner), FMul(Rat(2, 1), w_0))),
                                  w_dot_meas)
                      t_b == FDiv(FSub(FSqrt(inner), FMul(Rat(2, 1), w_0)),
                                  w_dot_meas)
                  IN  IF FLt(t_a, Rat(0, 1)) THEN Some(t_b) ELSE Some(t_a)

\* find_ctrl_setting's ω_dot_target, before it is divided by the effectiveness
w_dot_target(d_theta, w_0, w_dot_meas, ctrl_coeffs) ==
    LET t == correction_time(d_theta, w_0, w_dot_meas)
    IN  IF t.some /\ ~FGt(t.v, FMul(ctrl_coeffs.max_ttc_per_d_theta, d_theta))
        THEN LET ttc == t.v
                 w_dot_dot ==
                     FDiv(FMul(Rat(6, 1),
                               FAdd(FMul(Rat(2, 1), d_theta), FMul(ttc, w_0))),
                          FMul(FMul(ttc, ttc), ttc))
             IN  FAdd(w_dot_meas, w_dot_dot)
        ELSE w_dot_from_ttc(d_theta, w_0, ctrl_coeffs.ttc_per_d_theta)

\* find_ctrl_setting: `let ctrl_effectiveness = ω_dot_meas / ctrl_cmd_prev`
ctrl_effectiveness(w_dot_meas, ctrl_cmd_prev) == FDiv(w_dot_meas, ctrl_cmd_prev)

\* finite angle errors, rates, accelerations and previous commands, zero
\* among each
DThetaVals == {Rat(-1, 1), Rat(0, 1), Rat(1, 2)}
RateVals == {Rat(-1, 1), Rat(0, 1), Rat(2, 1), Rat(4, 1)}
AccelVals == {Rat(-1, 1), Rat(0, 1), Rat(1, 1), Rat(3, 1)}
CmdPrevVals == {Rat(-1, 2), Rat(0, 1), Rat(1, 2)}

(* One axis of rotor_rpms_from_att: find_ctrl_setting up to the division   *)
(* by the effectiveness, and calc_drag_coeff for the same sample against a *)
(* commanded acceleration of 1                                              *)
FindCtrlSetting ==
    /\ ~ctrl_out.ran
    /\ ctrl_out' =
          [ran |-> TRUE,
           w_dot_target |-> w_dot_target(ctrl_in.d_theta, ctrl_in.w_0,
                                         ctrl_in.w_dot_meas, CtrlCoeffsDefault),
           ctrl_effectiveness |-> ctrl_effectiveness(ctrl_in.w_dot_meas,
                                                     ctrl_in.ctrl_cmd_prev),
           drag_coeff |-> calc_drag_coeff(ctrl_in.w_0, ctrl_in.w_dot_meas,
                                          Rat(1, 1))]
    /\ UNCHANGED <<storeVars, mixInVars, tpaVars, ctrl_in, linkVars, telemVars, encVars, busVars, setupVars,
                   lockVars, fixed_wing, control_channel_data, armVars, histVars,
                   update_pending, imuVars, outVars, last_output, mixVars,
                   pidVars, apVars>>

-----------------------------------------------------------------------------
(* Throttle PID attenuation, src/pid.rs.  Values are exact fractions; the *)
(* rounding of f32 is left out.                                             *)

\* the multirotor's full rotor power
MAX_ROTOR_POWER == Rat(1, 1)
\* at full throttle the D term is attenuated to this value
TPA_MIN_ATTEN == Rat(1, 2)
\* TPA starts engaging at this throttle
TPA_BREAKPOINT == Rat(3, 10)
\* (TPA_MIN_ATTEN - 1.) / (MAX_ROTOR_POWER - TPA_BREAKPOINT)
TPA_SLOPE ==
    FDiv(FSub(TPA_MIN_ATTEN, Rat(1, 1)), FSub(MAX_ROTOR_POWER, TPA_BREAKPOINT))
\* -(TPA_SLOPE * TPA_BREAKPOINT - 1.)
TPA_Y_INT == FNeg(FSub(FMul(TPA_SLOPE, TPA_BREAKPOINT), Rat(1, 1)))

\* TPA_SLOPE * throttle + TPA_Y_INT
tpa_adjustment(throttle) == FAdd(FMul(TPA_SLOPE, throttle), TPA_Y_INT)

\* tpa_scaler with the bug "the breakpoint test is left out"
tpa_scaler_NoBreakpoint(throttle) == tpa_adjustment(throttle)

\* run_rate_quad: `let tpa_scaler = if throttle > TPA_BREAKPOINT {..} else { 1. }`
tpa_scaler(throttle) ==
    IF FGt(throttle, TPA_BREAKPOINT) THEN tpa_adjustment(throttle) ELSE Rat(1, 1)

\* x <= y on f32
FLe(x, y) == FLt(x, y) \/ (~is_nan(x) /\ x = y)

(* run_rate_quad's scaler of the D gain, for two throttle settings         *)
TpaScale ==
    /\ ~tpa_out.ran
    /\ tpa_out' = [ran |-> TRUE, lo |-> tpa_scaler(tpa_in.lo),
                   hi |-> tpa_scaler(tpa_in.hi)]
    /\ UNCHANGED <<storeVars, mixInVars, tpa_in, ctrlVars, linkVars, telemVars, encVars, busVars,
                   setupVars, lockVars, fixed_wing, control_channel_data,
                   armVars, histVars, update_pending, imuVars, outVars,
                   last_output, mixVars, pidVars, apVars>>

-----------------------------------------------------------------------------
(* update_isr: the autopilot step.  The commands AutopilotStatus::apply    *)
(* returns here are kept as the term <<"apply", modes>>; the apply of       *)
(* src/autopilot.rs has another signature.                                  *)

\* `let ap_cmds = autopilot_status.apply(params, system_status)`
ap_cmds(status) == <<"apply", status>>

\* the modes set_modes_from_ctrls leaves engaged
StoreModeVals ==
    {AutopilotStatusDefault,
     [AutopilotStatusDefault EXCEPT !.takeoff = TRUE],
     [AutopilotStatusDefault EXCEPT !.alt_hold = AltHold("Msl", 100)]}

(* `if !state_volatile.has_taken_off { state_volatile.autopilot_commands =  *)
(* ap_cmds; }`, after set_modes_from_ctrls and apply                        *)
UpdateIsrAutopilot ==
    /\ \E modes \in StoreModeVals :
          /\ autopilot_status' = modes
          /\ autopilot_commands' = IF ~has_taken_off THEN ap_cmds(modes)
                                   ELSE autopilot_commands
    /\ ap_store' = [ran |-> TRUE, stored |-> ~has_taken_off,
                    has_taken_off |-> has_taken_off]
    /\ UNCHANGED <<linkVars, telemVars, encVars, busVars, setupVars, lockVars,
                   ctrlVars, tpaVars, mixInVars, fixed_wing, control_channel_data,
                   armVars, histVars, update_pending, imuVars, outVars,
                   last_output, mixVars, pidVars,
                   input_mode, optional_sensors, params, inputs,
                   attitudes_commanded, rates_commanded, pid_attitude,
                   velocities_commanded, fw_attitudes_commanded, ap_last, ap_seq>>

-----------------------------------------------------------------------------
(* Specifications *)

\* the flight-control core of src/main.rs: radio, arming, motor output
Init ==
    /\ fixed_wing = FALSE
    /\ InitArm
    /\ InitIsr
    /\ InitLink
    /\ InitTelem
    /\ InitStore
    /\ InitMixIn
    /\ InitTpa
    /\ InitCtrl
    /\ InitLock
    /\ InitBus
    /\ InitSetup
    /\ InitEnc
    /\ InitOut
    /\ InitMix
    /\ InitPid
    /\ InitAp

Next ==
    \/ TimerTick
    \/ CrsfIsr
    \/ UpdateIsr
    \/ ImuTcIsrStart
    \/ ImuTcIsrReadArm
    \/ ImuTcIsrEncode

Spec == Init /\ [][Next]_vars

\* the PID primitive of both versions, run on all inputs and gains
InitPidInputs ==
    /\ fixed_wing = FALSE
    /\ InitArm
    /\ InitIsr
    /\ InitLink
    /\ InitTelem
    /\ InitStore
    /\ InitMixIn
    /\ InitTpa
    /\ InitCtrl
    /\ InitLock
    /\ InitBus
    /\ InitSetup
    /\ InitEnc
    /\ InitOut
    /\ InitMix
    /\ coeffs \in [k_p : KpVals, k_i : KiVals]
    /\ pid_state = PidStateDefault
    /\ fw_pid_state = PidStateDefault
    /\ pid_rate = PidGroupDefault
    /\ InitAp

NextPid ==
    \/ CalcPidError
    \/ FwCalcPidError

SpecPid == InitPidInputs /\ [][NextPid]_vars

\* the state handle_arm_status leaves after arming: one disarm signal, then
\* NUM_ARM_DISARM_SIGNALS_REQUIRED arm signals, all with idle throttle
InitArmed ==
    /\ control_channel_data = [arm_status |-> MOTORS_ARMED, throttle |-> 0]
    /\ arm_status = MOTORS_ARMED
    /\ has_taken_off = FALSE
    /\ arm_signals_received = 0
    /\ disarm_signals_received = 0
    /\ RECEIVED_INITIAL_DISARM = TRUE
    /\ ARM_COMMANDED_WITHOUT_IDLE = FALSE
    /\ arm_run = NUM_ARM_DISARM_SIGNALS_REQUIRED
    /\ disarm_run = 0
    /\ call_throttle = 0
    /\ seen_disarm = TRUE
    /\ seen_disarm_idle = TRUE
    /\ nonidle_arm_latched = FALSE

\* the output routines, run with the arm status fixed at Disarmed or Armed
InitMixer ==
    /\ fixed_wing = FALSE
    /\ (InitArm \/ InitArmed)
    /\ InitIsr
    /\ InitLink
    /\ InitTelem
    /\ InitStore
    /\ InitMixIn
    /\ InitTpa
    /\ InitCtrl
    /\ InitLock
    /\ InitBus
    /\ InitSetup
    /\ InitEnc
    /\ InitOut
    /\ InitMix
    /\ InitPid
    /\ InitAp

NextMixer ==
    \/ ChangeAttitude
    \/ ApplyControls
    \/ ImuTcIsrStart
    \/ ImuTcIsrReadArm
    \/ ImuTcIsrEncode

SpecMixer == InitMixer /\ [][NextMixer]_vars

\* the autopilot routines, run on every combination of behaviours
InitAutopilot ==
    /\ fixed_wing \in BOOLEAN
    /\ InitArm
    /\ InitIsr
    /\ InitLink
    /\ InitTelem
    /\ InitStore
    /\ InitMixIn
    /\ InitTpa
    /\ InitCtrl
    /\ InitLock
    /\ InitBus
    /\ InitSetup
    /\ InitEnc
    /\ InitOut
    /\ InitMix
    /\ InitPid
    /\ autopilot_status \in
          [alt_hold : AltHoldVals, takeoff : BOOLEAN, land : BOOLEAN,
           direct_to_point : PointVals, loiter : PointVals, orbit : PointVals,
           recover : RecoverVals]
    /\ (fixed_wing => ~autopilot_status.loiter.some)
    /\ (~fixed_wing => ~autopilot_status.orbit.some)
    /\ input_mode \in InputMode
    /\ optional_sensors \in [gps_connected : BOOLEAN, tof_connected : BOOLEAN]
    /\ params = ParamsDefault
    /\ inputs = CtrlInputsZero
    /\ attitudes_commanded = CtrlInputsNone
    /\ rates_commanded = CtrlInputsNone
    /\ pid_attitude = PidGroupDefault
    /\ velocities_commanded = CtrlInputsUnset
    /\ fw_attitudes_commanded = CtrlInputsUnset
    /\ ap_last = "none"
    /\ ap_seq = 0

NextAutopilot ==
    \/ ApplyQuad
    \/ ApplyFixedWing
    \/ RunVelocity
    \/ RunAttitude
    \/ StickInput

SpecAutopilot == InitAutopilot /\ [][NextAutopilot]_vars

\* the radio link: packets, the lost-link timer and the recovery, for both
\* builds, with and without a position fix, on the ground and at altitude
InitLostLink ==
    /\ fixed_wing \in BOOLEAN
    /\ InitArm
    /\ InitIsr
    /\ link_lost = TRUE
    /\ lost_link_timer = [enabled |-> FALSE, count |-> 0]
    /\ lost_link_pending = FALSE
    /\ system_status \in [rf_control_link : {"Other"}, rf_control_fault : {FALSE},
                          gnss_can : SensorStatus, magnetometer : SensorStatus]
    /\ link_stats = "stats_a"
    /\ since_ch_data = LostLinkPeriod
    /\ since_packet = LostLinkPeriod
    /\ pilot_ap = AutopilotStatusDefault
    /\ link_event = "none"
    /\ InitTelem
    /\ InitStore
    /\ InitMixIn
    /\ InitTpa
    /\ InitCtrl
    /\ InitLock
    /\ InitBus
    /\ InitSetup
    /\ InitEnc
    /\ InitOut
    /\ InitMix
    /\ InitPid
    /\ \E alt \in RecoveryAltVals :
          params = [ParamsDefault EXCEPT !.baro_alt_msl = alt]
    /\ autopilot_status = AutopilotStatusDefault
    /\ input_mode = "Acro"
    /\ optional_sensors = [gps_connected |-> FALSE, tof_connected |-> FALSE]
    /\ inputs = CtrlInputsZero
    /\ attitudes_commanded = CtrlInputsNone
    /\ rates_commanded = CtrlInputsNone
    /\ pid_attitude = PidGroupDefault
    /\ velocities_commanded = CtrlInputsUnset
    /\ fw_attitudes_commanded = CtrlInputsUnset
    /\ ap_last = "none"
    /\ ap_seq = 0

NextLostLink ==
    \/ CrsfIsr
    \/ CrsfIsrLinkStats
    \/ CrsfIsrNoPacket
    \/ LostLinkTimerTick
    \/ LostLinkIsr

SpecLostLink == InitLostLink /\ [][NextLostLink]_vars

\* ESC telemetry: return frames arrive on the motor lines and update_rpms
\* reads them
NextTelem ==
    \/ ReceiveFrame
    \/ UpdateRpms

SpecTelem == Init /\ [][NextTelem]_vars

\* rpm_from_data, run on recovered packets
NextRpmFromData == RpmFromData

SpecRpmFromData == Init /\ [][NextRpmFromData]_vars

\* the frame encoder of both builds, on powers and commands, with and
\* without the telemetry bit, and single-bit noise on the wire
InitEncoder ==
    /\ fixed_wing = FALSE
    /\ InitArm
    /\ InitIsr
    /\ InitLink
    /\ InitTelem
    /\ InitStore
    /\ InitMixIn
    /\ InitTpa
    /\ InitCtrl
    /\ InitLock
    /\ InitBus
    /\ InitSetup
    /\ firmware_build \in BOOLEAN
    /\ enc_cmd = [kind |-> "none", v |-> 0]
    /\ enc_telem = FALSE
    /\ enc_duties = [k \in 1..16 |-> 0]
    /\ wire_frame = 0
    /\ wire_flip = -1
    /\ InitOut
    /\ InitMix
    /\ InitPid
    /\ InitAp

NextEncoder ==
    \/ SetupPayload
    \/ FlipBit
    \/ SetEscTelem

SpecEncoder == InitEncoder /\ [][NextEncoder]_vars

\* arming together with the rate loop
NextDisarm ==
    \/ TimerTick
    \/ CrsfIsr
    \/ UpdateIsr
    \/ RunRateQuad

SpecDisarm == Init /\ [][NextDisarm]_vars

\* the motor bus in bidirectional mode: bursts, receptions and their interrupt
NextBus ==
    \/ SetPowerEncode
    \/ SendPayload
    \/ DmaTransfer
    \/ DshotIsrR34

SpecBus == Init /\ [][NextBus]_vars

\* power-up: init runs setup_motor_dir, then the tasks of the build run
InitBoot ==
    /\ fixed_wing = FALSE
    /\ InitArm
    /\ InitIsr
    /\ InitLink
    /\ InitTelem
    /\ InitStore
    /\ InitMixIn
    /\ InitTpa
    /\ InitCtrl
    /\ InitLock
    /\ InitBus
    /\ InitOut
    /\ InitMix
    /\ InitPid
    /\ InitAp
    /\ firmware_build \in BOOLEAN
    /\ enc_cmd = [kind |-> "none", v |-> 0]
    /\ enc_telem = FALSE
    /\ enc_duties = [k \in 1..16 |-> 0]
    /\ wire_frame = 0
    /\ wire_flip = -1
    /\ setup_pc = IF firmware_build THEN "spin_dir" ELSE "stop_all"
    /\ setup_i = 0
    /\ motors_reversed \in MotorsReversedVals
    /\ frame_delayed = TRUE
    /\ cmd_sent = [dir |-> 0, save |-> 0]

\* RTIC: the tasks run once init has returned
TasksSrc ==
    /\ setup_pc = "done"
    /\ ~firmware_build
    /\ Next

TasksFirmware ==
    /\ setup_pc = "done"
    /\ firmware_build
    /\ ChangeAttitude

NextBoot ==
    \/ SetupStopAll
    \/ SetupDelay
    \/ SetupTelemOn
    \/ SetupSpinDir
    \/ SetupSave
    \/ SetupFinish
    \/ TasksSrc
    \/ TasksFirmware

SpecBoot == InitBoot /\ [][NextBoot]_vars

\* fixed-wing direct-to-point, from every heading and towards every target
InitDirectToPoint ==
    /\ fixed_wing = TRUE
    /\ InitArm
    /\ InitIsr
    /\ InitLink
    /\ InitTelem
    /\ InitStore
    /\ InitMixIn
    /\ InitTpa
    /\ InitCtrl
    /\ InitLock
    /\ InitBus
    /\ InitSetup
    /\ InitEnc
    /\ InitOut
    /\ InitMix
    /\ InitPid
    /\ autopilot_status \in
          {[AutopilotStatusDefault EXCEPT !.direct_to_point = pt, !.alt_hold = h] :
              pt \in DirectPointVals, h \in AltHoldVals}
    /\ input_mode = "Attitude"
    /\ optional_sensors \in [gps_connected : BOOLEAN, tof_connected : {TRUE}]
    /\ params \in {[ParamsDefault EXCEPT !.s_yaw_heading = h, !.baro_alt_msl = a] :
                      h \in HeadingVals, a \in {0, 100}}
    /\ LET pt == autopilot_status.direct_to_point
           dist == find_distance(<<pt.lat, pt.lon>>, <<params.lat, params.lon>>)
       IN  pt.alt_msl - params.baro_alt_msl \in {0, dist, -dist}
    /\ inputs = CtrlInputsZero
    /\ attitudes_commanded = CtrlInputsNone
    /\ rates_commanded = CtrlInputsNone
    /\ pid_attitude = PidGroupDefault
    /\ velocities_commanded = CtrlInputsUnset
    /\ fw_attitudes_commanded = CtrlInputsUnset
    /\ ap_last = "none"
    /\ ap_seq = 0

NextDirectToPoint == ApplyFixedWing

SpecDirectToPoint == InitDirectToPoint /\ [][NextDirectToPoint]_vars

\* the correction formulas on every combination of the finite inputs
InitCtrlSetting ==
    /\ fixed_wing = FALSE
    /\ InitArm
    /\ InitIsr
    /\ InitLink
    /\ InitTelem
    /\ InitStore
    /\ InitMixIn
    /\ InitTpa
    /\ InitLock
    /\ InitBus
    /\ InitSetup
    /\ InitEnc
    /\ InitOut
    /\ InitMix
    /\ InitPid
    /\ InitAp
    /\ ctrl_out = CtrlOutNone
    /\ ctrl_in \in [d_theta : DThetaVals, w_0 : RateVals,
                    w_dot_meas : AccelVals, ctrl_cmd_prev : CmdPrevVals]

NextCtrlSetting == FindCtrlSetting

SpecCtrlSetting == InitCtrlSetting /\ [][NextCtrlSetting]_vars

\* arming on the fixed-wing build: the three-position arm switch and the tick
InitArmFixedWing ==
    /\ fixed_wing = TRUE
    /\ InitArm
    /\ InitIsr
    /\ InitLink
    /\ InitTelem
    /\ InitStore
    /\ InitMixIn
    /\ InitTpa
    /\ InitCtrl
    /\ InitLock
    /\ InitBus
    /\ InitSetup
    /\ InitEnc
    /\ InitOut
    /\ InitMix
    /\ InitPid
    /\ InitAp

NextArmFixedWing ==
    \/ TimerTick
    \/ CrsfIsr
    \/ UpdateIsr

SpecArmFixedWing == InitArmFixedWing /\ [][NextArmFixedWing]_vars

\* the D-term scaler on every pair of throttles from idle to full power
InitTpaScale ==
    /\ fixed_wing = FALSE
    /\ InitArm
    /\ InitIsr
    /\ InitLink
    /\ InitTelem
    /\ InitStore
    /\ InitMixIn
    /\ InitCtrl
    /\ InitLock
    /\ InitBus
    /\ InitSetup
    /\ InitEnc
    /\ InitOut
    /\ InitMix
    /\ InitPid
    /\ InitAp
    /\ \E a \in 0..PowerSteps, b \in 0..PowerSteps :
          /\ a <= b
          /\ tpa_in = [lo |-> Rat(a, PowerSteps), hi |-> Rat(b, PowerSteps)]
    /\ tpa_out = TpaOutNone

NextTpaScale == TpaScale

SpecTpaScale == InitTpaScale /\ [][NextTpaScale]_vars

\* the quad mixer at half throttle, from every stored rotor power
InitMixHover ==
    /\ fixed_wing = FALSE
    /\ (InitArm \/ InitArmed)
    /\ InitIsr
    /\ InitLink
    /\ InitTelem
    /\ InitStore
    /\ InitTpa
    /\ InitCtrl
    /\ InitLock
    /\ InitBus
    /\ InitSetup
    /\ InitEnc
    /\ InitOut
    /\ InitPid
    /\ InitAp
    /\ mix_throttles = HoverThrottleVals
    /\ mix_in = [called |-> FALSE, pitch |-> 0, roll |-> 0, yaw |-> 0, throttle |-> 0]
    /\ current_pwr \in [p1 : StoredPowerVals, p2 : StoredPowerVals,
                        p3 : StoredPowerVals, p4 : StoredPowerVals]
    /\ rotor_duty = <<current_pwr.p1, current_pwr.p2, current_pwr.p3, current_pwr.p4>>
    /\ control_posits = [motor |-> 0, elevon_left |-> 0, elevon_right |-> 0]
    /\ elevon_posit = <<0, 0>>

\* the first call with any effort, every later one with none
NextMixHover ==
    /\ ChangeAttitude
    /\ mix_in.called => (mix_in'.pitch = 0 /\ mix_in'.roll = 0 /\ mix_in'.yaw = 0)

SpecMixHover == InitMixHover /\ [][NextMixHover]_vars

\* the tick handler's takeoff detection and autopilot step, on the ground
\* and in the air
NextTakeoffStore ==
    \/ TakeoffAttitudeLock
    \/ UpdateIsrAutopilot

SpecTakeoffStore == InitMixer /\ [][NextTakeoffStore]_vars

\* the takeoff attitude lock, with the arm status fixed at Disarmed or Armed
NextTakeoffLock == TakeoffAttitudeLock

SpecTakeoffLock == InitMixer /\ [][NextTakeoffLock]_vars

-----------------------------------------------------------------------------
(* Arming state machine: properties *)

\* C1: starting from Disarmed, the status becomes Armed only on the call that
\* delivers the Nth consecutive arm signal (throttle idle, a disarm seen before),
\* it does become Armed on that call, and while fewer than N consecutive arm
\* signals have been delivered (so also after N-1 arm signals and one non-arm
\* signal) the status stays Disarmed.
C1_ArmingDebounce ==
    /\ [][arm_status = "Disarmed" =>
            /\ (arm_status' = MOTORS_ARMED =>
                   /\ arm_run' = NUM_ARM_DISARM_SIGNALS_REQUIRED
                   /\ call_throttle' < THROTTLE_MAX_TO_ARM
                   /\ seen_disarm)
            /\ (arm_run' < NUM_ARM_DISARM_SIGNALS_REQUIRED => arm_status' = "Disarmed")]_vars
    /\ [](~(/\ arm_status = "Disarmed"
            /\ arm_run = NUM_ARM_DISARM_SIGNALS_REQUIRED
            /\ call_throttle < THROTTLE_MAX_TO_ARM
            /\ seen_disarm))

\* C1 witness: armed by the Nth consecutive arm signal
C1_Witness ==
    /\ arm_status = MOTORS_ARMED
    /\ arm_run = NUM_ARM_DISARM_SIGNALS_REQUIRED
    /\ disarm_run = 0
    /\ seen_disarm

\* C2: once the Nth consecutive arm signal has arrived with throttle not idle,
\* the status is Disarmed and stays so, whatever the throttle of later arm
\* signals, until a disarm signal has been handled.
C2_NonIdleLatchBlocks == nonidle_arm_latched => arm_status = "Disarmed"

\* C2 witness: a second full run of arm signals, ending with idle throttle, was rejected
C2_Witness ==
    /\ nonidle_arm_latched
    /\ arm_run = 2 * NUM_ARM_DISARM_SIGNALS_REQUIRED
    /\ call_throttle < THROTTLE_MAX_TO_ARM
    /\ seen_disarm
    /\ arm_status = "Disarmed"

\* C3 (as claimed): the status is Armed only if a disarm signal with idle
\* throttle was handled earlier.
C3_ArmedOnlyAfterDisarmIdle == arm_status = MOTORS_ARMED => seen_disarm_idle

C6_DisarmDebounce ==
    [][arm_status = MOTORS_ARMED =>
          ((arm_status' # MOTORS_ARMED) <=>
           (disarm_run' = NUM_ARM_DISARM_SIGNALS_REQUIRED))]_vars

\* C6 witness: still Armed after N-1 consecutive non-arm signals
C6_Witness ==
    /\ arm_status = MOTORS_ARMED
    /\ disarm_run = NUM_ARM_DISARM_SIGNALS_REQUIRED - 1
    /\ disarm_signals_received = NUM_ARM_DISARM_SIGNALS_REQUIRED - 1

-----------------------------------------------------------------------------
(* Mixers: properties *)

\* C4 (as claimed): whenever the arm status is not the motors-armed one, each
\* output step of a mixer emits zero power for every motor and neutral elevon
\* positions, whatever effort it was given.
C4_DisarmedOutputAllStop ==
    [][frames_sent' # frames_sent /\ arm_status # MOTORS_ARMED =>
          CASE last_output' = "RotorPower::set" -> rotor_duty' = <<0, 0, 0, 0>>
            [] last_output' = "ControlPositions::set" ->
                  IsAllStop(PAYLOAD') /\ elevon_posit' = <<0, 0>>
            [] OTHER -> IsAllStop(PAYLOAD')]_vars

-----------------------------------------------------------------------------
(* PID: properties *)

\* C7 (as claimed): on the step that takes the status from Armed to not Armed,
\* the integral term of every axis of the rate PID group is zero afterwards.
C7_IntegralsResetOnDisarm ==
    [][arm_status = MOTORS_ARMED /\ arm_status' # MOTORS_ARMED =>
          /\ pid_rate'.pitch.i = 0
          /\ pid_rate'.roll.i = 0
          /\ pid_rate'.yaw.i = 0
          /\ pid_rate'.thrust.i = 0]_vars

\* C8 (as claimed): after every calc_pid_error tick, |p + i| is at most the
\* integrator clamp, in src/pid.rs and in firmware/pid.rs.
C8_PPlusIBounded ==
    /\ Abs(pid_state.p + pid_state.i) <= INTEGRATOR_CLAMP_MAX_QUAD
    /\ Abs(fw_pid_state.p + fw_pid_state.i) <= INTEGRATOR_CLAMP_MAX

\* C8 (amended): after every calc_pid_error tick of src/pid.rs, |p + i| is at
\* most the integrator clamp whenever |p| is, and otherwise the integral does
\* not add to p (i is zero or of the opposite sign, and |p + i| <= |p|); after
\* every calc_pid_error tick of firmware/pid.rs, |i| is at most its clamp.
C8_IntegratorBand ==
    /\ (Abs(pid_state.p) <= INTEGRATOR_CLAMP_MAX_QUAD =>
           Abs(pid_state.p + pid_state.i) <= INTEGRATOR_CLAMP_MAX_QUAD)
    /\ (Abs(pid_state.p) > INTEGRATOR_CLAMP_MAX_QUAD =>
           /\ pid_state.p * pid_state.i <= 0
           /\ Abs(pid_state.p + pid_state.i) <= Abs(pid_state.p))
    /\ Abs(fw_pid_state.i) <= INTEGRATOR_CLAMP_MAX

\* C8 witness: both integrals have wound up to the edge of their band
C8_Witness ==
    /\ pid_state.i > 0
    /\ pid_state.e # 0
    /\ pid_state.p + pid_state.i = INTEGRATOR_CLAMP_MAX_QUAD
    /\ fw_pid_state.i = INTEGRATOR_CLAMP_MAX
    /\ fw_pid_state.p # 0

-----------------------------------------------------------------------------
(* Autopilot: properties *)

\* the heading AutopilotStatus::apply computes for the point to fly to
PointHeading ==
    find_bearing(<<params.lat, params.lon>>,
                 <<autopilot_status.direct_to_point.lat,
                   autopilot_status.direct_to_point.lon>>)

\* C9 (as claimed): while recover is set, the set points run_velocity and
\* run_attitude leave are those of the recover block, whichever other
\* behaviours or input mode are active.
C9_RecoveryOverrides ==
    autopilot_status.recover.some =>
        /\ (ap_last = "run_attitude" =>
               fw_attitudes_commanded =
                   RecoverSetpoints(autopilot_status.recover.v, params))
        /\ (ap_last = "run_velocity" =>
               velocities_commanded =
                   RecoverSetpoints(autopilot_status.recover.v, params))

\* C10 (as claimed): with recovery not set, land outranks direct-to-point and
\* takeoff, and direct-to-point outranks loiter and takeoff: the quad apply
\* turns to the point whenever direct-to-point is set and land is not, and the
\* firmware's Command mode applies the landing set points whenever land is set.
C10_SpecOrder ==
    ~autopilot_status.recover.some =>
        /\ (/\ ap_last = "apply_quad"
            /\ ~autopilot_status.land
            /\ autopilot_status.direct_to_point.some
            /\ optional_sensors.gps_connected
            => attitudes_commanded.yaw = Some(PointHeading))
        /\ (/\ ap_last = "run_attitude"
            /\ input_mode = "Command"
            /\ autopilot_status.land
            => fw_attitudes_commanded = LandSetpoints(params))

\* C10 (amended): the behaviour applied is the first one set in the order the
\* code lists them: takeoff, land, direct-to-point, loiter in the quad apply;
\* takeoff, land, orbit, direct-to-point in the fixed-wing apply; takeoff, land
\* in the firmware's Command mode.
C10_CodeOrder ==
    /\ (ap_last = "apply_quad" =>
           attitudes_commanded.yaw =
               IF /\ ~autopilot_status.takeoff
                  /\ ~autopilot_status.land
                  /\ autopilot_status.direct_to_point.some
                  /\ optional_sensors.gps_connected
               THEN Some(PointHeading)
               ELSE None)
    /\ (ap_last = "apply_fixed_wing" =>
           attitudes_commanded.roll =
               IF /\ ~autopilot_status.takeoff
                  /\ ~autopilot_status.land
                  /\ ~autopilot_status.orbit.some
                  /\ autopilot_status.direct_to_point.some
                  /\ optional_sensors.gps_connected
               THEN Some(Max((PointHeading - params.s_yaw_heading) * 2, MAX_BANK))
               ELSE None)
    /\ (ap_last = "run_attitude" /\ input_mode = "Command" =>
           /\ (autopilot_status.takeoff =>
                  fw_attitudes_commanded = TakeoffSetpoints(params))
           /\ (~autopilot_status.takeoff /\ autopilot_status.land =>
                  fw_attitudes_commanded = LandSetpoints(params)))

\* C10 witness: the quad apply has run with takeoff, land and direct-to-point
\* all set and a position fix, and has left the yaw set point alone
C10_Witness ==
    /\ ap_last = "apply_quad"
    /\ autopilot_status.takeoff
    /\ autopilot_status.land
    /\ autopilot_status.direct_to_point.some
    /\ autopilot_status.loiter.some
    /\ optional_sensors.gps_connected
    /\ attitudes_commanded.yaw = None

-----------------------------------------------------------------------------
(* Lost link: properties *)

C12_ReacquireRestoresControl ==
    (link_event = "reacquired") => (~link_lost /\ autopilot_status = pilot_ap)

(* C13: after lost-link recovery has run, altitude hold is at the recovery  *)
(* altitude; with a position fix direct-to-point is set to the base point;  *)
(* without one direct-to-point is as it was before.                         *)
C13_RecoveryTargets ==
    (link_event = "lost") =>
        /\ autopilot_status.alt_hold = AltHold("Msl", LOST_LINK_RTB_ALT)
        /\ (system_status.gnss_can = "Pass"
               => autopilot_status.direct_to_point = base_point)
        /\ (system_status.gnss_can # "Pass"
               => autopilot_status.direct_to_point = pilot_ap.direct_to_point)

-----------------------------------------------------------------------------
(* ESC telemetry: properties *)

(* C14: one run of update_rpms gives every motor whose own return frame     *)
(* decodes to an RPM that RPM, and leaves the stored RPM of a motor whose   *)
(* own return frame is faulty (or carries other telemetry) as it was.       *)
C14_FaultIsolation ==
    [][UpdateRpms =>
          \A m \in 1..NUM_MOTORS :
              LET u == update_rpm_from_packet(rotor_rpms[RpmField[m]],
                                              packet_of_buffer(PAYLOAD_REC_BB[m]))
              IN  rotor_rpms'[RpmField[m]] = u.rpm]_vars

(* C15: rpm_from_data reports a checksum fault exactly when the low nibble  *)
(* of the packet differs from calc_crc of its upper 12 bits.                *)
C15_ChecksumValidation ==
    (rec_result.err # "NotRun") =>
        ((rec_result.err = "Crc") <=> (rec_packet % 16 # calc_crc(rec_packet \div 16)))

-----------------------------------------------------------------------------
(* DSHOT frame encoder: properties *)

\* the checksum nibble of a frame matches the checksum over its upper 12 bits
frame_crc_ok(frame) ==
    LET packet == frame \div 16
        x == Xor(Xor(packet, packet \div 16), packet \div 256) % 16
    IN  frame % 16 = IF firmware_build THEN x ELSE 15 - x

(* C16: a frame that left the encoder and had any one of its 16 bits       *)
(* flipped fails the checksum test.                                         *)
C16_SingleBitFlipDetected ==
    (wire_flip # -1) => ~frame_crc_ok(wire_frame)

\* the top bit of a full-power frame of the bidirectional encoder was flipped
C16_Witness ==
    /\ ~firmware_build
    /\ enc_cmd = CmdPower(1000)
    /\ wire_flip = 15
    /\ wire_frame = Xor(setup_payload(2047, enc_telem), 32768)

(* C17: the frame read back from the buffer entries setup_payload wrote     *)
(* has the data word in bits 15..5, the telemetry bit in bit 4 and the      *)
(* checksum of the upper 12 bits (inverted in the bidirectional encoder) in *)
(* bits 3..0.                                                               *)
C17_FrameLayout ==
    (enc_cmd.kind # "none") =>
        LET frame == frame_of_duties(enc_duties, 16,
                                     IF firmware_build THEN fw_DUTY_HIGH ELSE DUTY_HIGH)
        IN  /\ frame \div 32 = data_word_of(enc_cmd)
            /\ Bit(frame, 4) = (IF enc_telem THEN 1 ELSE 0)
            /\ frame_crc_ok(frame)
            /\ (wire_flip = -1 => wire_frame = frame)

\* a command frame with the telemetry bit set, from the bidirectional encoder
C17_Witness ==
    /\ ~firmware_build
    /\ enc_cmd = CmdCommand(SpinDir2)
    /\ enc_telem
    /\ wire_flip = -1
    /\ wire_frame = 287

(* C18: a power command encodes to a data word in 48..2047; power 0.0 gives *)
(* 48 and power 1.0 gives 2047.                                             *)
C18_PowerDataWordRange ==
    (enc_cmd.kind = "Power" /\ wire_flip = -1) =>
        LET word == DataWord(wire_frame)
        IN  /\ word \in 48..2047
            /\ (enc_cmd.v = 0 => word = 48)
            /\ (enc_cmd.v = 1000 => word = 2047)

\* full power has been encoded
C18_Witness ==
    /\ enc_cmd = CmdPower(1000)
    /\ wire_flip = -1
    /\ DataWord(wire_frame) = 2047

(* C19: in bidirectional mode every transfer-complete interrupt of a burst  *)
(* switches the motor lines to input and starts a reception, whatever the   *)
(* interleaving of transmit requests and interrupts, and whenever a burst   *)
(* is being transmitted the motor pins are in output mode, also when the    *)
(* burst ended a reception under way.                                       *)
C19_BidirCycle ==
    /\ [][(dma_tc = "write" /\ dma_tc' = "none") =>
             /\ isr_branch' = "to_input"
             /\ pin_mode' = "input"
             /\ timer_dir' = "input"
             /\ dma_xfer' = "read"]_vars
    /\ [](BusPhase = "Transmitting" => pin_mode = "alt")

\* a burst with a command frame is started in this step
CommandBurstStarted ==
    /\ frames_sent' # frames_sent
    /\ \E w \in EmittedDataWords' : IsCommandWord(w)

C21_NoPartialCredit ==
    /\ (lock_in.called /\ ~has_taken_off) =>
          /\ (~HighThrottleCond(arm_status, lock_in.throttle)
                 => time_with_high_throttle = 0)
          /\ (~IdleLevelCond(arm_status, lock_in.throttle, lock_in.angle_from_upright)
                 => time_with_low_throttle = 0)
    /\ has_taken_off => high_run >= TAKEOFF_POWER_TIME * TicksPerSecond

(* C22: a sensor-dependent autopilot behaviour whose sensor is unavailable  *)
(* (AGL altitude hold without the range sensor; land, direct-to-point and   *)
(* loiter without a position fix) is not entered: every run of the quad     *)
(* AutopilotStatus::apply and of run_velocity leaves the commands as they   *)
(* would be with that behaviour switched off, so that the behaviours of     *)
(* lower precedence or the pilot's commands apply.                          *)
C22_SensorFallback ==
    [][LET ap == autopilot_status
           sens == optional_sensors
           usable ==
               [ap EXCEPT
                  !.alt_hold = IF ap.alt_hold.alt_type = "Agl" /\ ~sens.tof_connected
                               THEN NoAltHold ELSE @,
                  !.land = @ /\ sens.gps_connected,
                  !.direct_to_point = IF sens.gps_connected THEN @ ELSE NoPoint,
                  !.loiter = IF sens.gps_connected THEN @ ELSE NoPoint]
       IN  /\ (ap_last' = "apply_quad" /\ ap_seq' # ap_seq) =>
                 LET r == apply_quad(usable, params, attitudes_commanded,
                                     rates_commanded, pid_attitude, coeffs, sens)
                 IN  /\ attitudes_commanded' = r.attitudes_commanded
                     /\ rates_commanded' = r.rates_commanded
                     /\ pid_attitude' = r.pid
           /\ (ap_last' = "run_velocity" /\ ap_seq' # ap_seq) =>
                 velocities_commanded' =
                     run_velocity(usable, params, velocities_commanded)]_vars

(* C23: in fixed-wing direct-to-point the commanded roll never exceeds      *)
(* MAX_BANK in magnitude, for every heading error and every target altitude *)
(* and distance.                                                            *)
C23_BankLimit ==
    (/\ fixed_wing
     /\ ap_last = "apply_fixed_wing"
     /\ autopilot_status.direct_to_point.some
     /\ attitudes_commanded.roll.some)
        => Abs(attitudes_commanded.roll.v) <= MAX_BANK

(* C24: for every finite angle error, rate, acceleration and previous      *)
(* command, zero included, the correction-time and control-effectiveness    *)
(* formulas return a finite value: once find_ctrl_setting has run, the      *)
(* target acceleration, the effectiveness and the drag coefficient are      *)
(* neither infinite nor NaN.                                                *)
C24_FiniteResults ==
    ctrl_out.ran =>
        /\ is_finite(ctrl_out.w_dot_target)
        /\ is_finite(ctrl_out.ctrl_effectiveness)
        /\ is_finite(ctrl_out.drag_coeff)

(* C25: on fixed-wing the arm status progresses Disarmed -> ControlsArmed  *)
(* -> MotorsControlsArmed.  The status leaves Disarmed only for            *)
(* ControlsArmed, and it does not stay ControlsArmed once the controller    *)
(* has signalled motors-armed on NUM_ARM_DISARM_SIGNALS_REQUIRED            *)
(* consecutive ticks with the throttle idle.                                *)
C25_ArmProgression ==
    /\ [][(fixed_wing /\ arm_status = "Disarmed" /\ arm_status' # "Disarmed")
             => arm_status' = "ControlsArmed"]_vars
    /\ []((/\ fixed_wing
           /\ arm_status = "ControlsArmed"
           /\ call_throttle < THROTTLE_MAX_TO_ARM)
             => arm_run < NUM_ARM_DISARM_SIGNALS_REQUIRED)

(* C27: the D-term scaler of the rate loop is 1 for every throttle at or   *)
(* below TPA_BREAKPOINT, does not increase as the throttle rises, and is    *)
(* TPA_MIN_ATTEN at MAX_ROTOR_POWER.                                        *)
C27_TpaMonotone ==
    tpa_out.ran =>
        /\ FLe(tpa_in.lo, TPA_BREAKPOINT) => tpa_out.lo = Rat(1, 1)
        /\ FLe(tpa_in.hi, TPA_BREAKPOINT) => tpa_out.hi = Rat(1, 1)
        /\ FLe(tpa_out.hi, tpa_out.lo)
        /\ tpa_in.hi = MAX_ROTOR_POWER => tpa_out.hi = TPA_MIN_ATTEN
        /\ FLe(TPA_MIN_ATTEN, tpa_out.hi)

\* the scaler has been derived for a throttle above idle and not above the
\* breakpoint, and for full power
C27_Witness ==
    /\ tpa_out.ran
    /\ FGt(tpa_in.lo, Rat(0, 1))
    /\ FLe(tpa_in.lo, TPA_BREAKPOINT)
    /\ tpa_in.hi = MAX_ROTOR_POWER
    /\ tpa_out.lo = Rat(1, 1)
    /\ tpa_out.hi = TPA_MIN_ATTEN

(* C26: the handler priorities are strictly ordered, highest first: the    *)
(* handler that runs the attitude estimator and the rate-tier output on     *)
(* each IMU sample (imu_tc_isr) is above the fixed-rate tick handler        *)
(* (update_isr), which is above the radio-packet handler (crsf_isr): a tick  *)
(* that is pending is one that imu_tc_isr could preempt, and that could     *)
(* itself preempt crsf_isr.                                                 *)
C26_PriorityOrder ==
    update_pending =>
        /\ TaskPriority.imu_tc_isr > TaskPriority.update_isr
        /\ TaskPriority.update_isr > TaskPriority.crsf_isr

(* C29: with the multirotor mixer, efforts of pitch 0, roll 0, yaw 0 and a  *)
(* throttle of 0.5 yield all four rotor powers equal to 0.5, on every call  *)
(* and whatever the stored rotor powers were.                               *)
C29_NeutralHalfThrottle ==
    (/\ mix_in.called
     /\ mix_in.pitch = 0
     /\ mix_in.roll = 0
     /\ mix_in.yaw = 0
     /\ mix_in.throttle = 500)
        => current_pwr = [p1 |-> 500, p2 |-> 500, p3 |-> 500, p4 |-> 500]

(* C28: clamping the mixer's output a second time changes nothing: the     *)
(* four rotor powers that change_attitude has clamped and stored, and the   *)
(* motor power and two elevon positions that apply_controls has clamped and *)
(* stored, are fixed points of their clamp.                                 *)
C28_ClampIdempotent ==
    /\ last_output = "RotorPower::set"
          => RotorPower_clamp(current_pwr) = current_pwr
    /\ last_output = "ControlPositions::set"
          => ControlPositions_clamp(control_posits) = control_posits

\* a mix that exceeded the limits on both mixers: every effort at its largest
\* at full throttle puts rotor 1 above full power, and the stored elevon and
\* motor positions sit on their limits
C28_Witness ==
    /\ mix_in.called
    /\ mix_in.pitch = 50 /\ mix_in.roll = 50 /\ mix_in.yaw = 50
    /\ mix_in.throttle = 1000
    /\ current_pwr.p1 = 1000
    /\ control_posits.elevon_left = ELEVON_MAX
    /\ control_posits.elevon_right = ELEVON_MIN
    /\ control_posits.motor = MIN_MOTOR_POWER

(* C30: autopilot modes are not applied on the ground: the tick handler    *)
(* stores the autopilot layer's commands into the active command state only *)
(* when has_taken_off is true, never while it is false.                     *)
C30_StoreOnlyAirborne ==
    (ap_store.ran /\ ap_store.stored) => ap_store.has_taken_off

====
